---- MODULE Spec2Model ----
(***************************************************************************)
(* A model of the minicomps widget toolkit: the bounded-value controls     *)
(* (HSlider, VSlider, Knob, NumericStepper) and the Dropdown.               *)
(*                                                                         *)
(* Numbers.  A JavaScript number is modelled as an integer count of tenths *)
(* (47 is written 470), so that the values a drag produces on the default  *)
(* track are exact; NaN is a distinguished value with the arithmetic and   *)
(* comparison rules of IEEE 754.  Pixel coordinates are integer counts of  *)
(* half pixels (the 15 px handle is 30), because a recentred grab sits at  *)
(* handleSize / 2.  Binary floating-point representation error is outside  *)
(* the model.                                                              *)
(*                                                                         *)
(* Events.  The DOM keeps, per target and event type, a set of listeners;  *)
(* adding a listener twice keeps one, and an event delivered to a target   *)
(* runs the listeners registered on it.  `listeners` is that set.          *)
(***************************************************************************)
EXTENDS Integers, Sequences, FiniteSets, TLC

VARIABLES
  cls,             \* the class of the widget instance
  min, max,        \* this._min, this._max
  decimals,        \* this._decimals
  value,           \* this._value (the stored value)
  reversed,        \* this._reversed
  enabled,         \* Component._enabled
  listeners,       \* registered DOM listeners: <<target, event, handler>>
  offset,          \* HSlider._offsetX / VSlider._offsetY (half pixels)
  startY,          \* Knob._startY (pixels)
  startValue,      \* Knob._startValue
  handlePos,       \* _handle.offsetLeft / offsetTop (half pixels)
  isIncrementing,  \* NumericStepper._isIncrementing
  isDecrementing,  \* NumericStepper._isDecrementing
  delay,           \* NumericStepper._delay
  timeout,         \* NumericStepper._timeout (id of the last timer set, 0: none)
  timers,          \* pending setTimeout callbacks: [id, fn, delay]
  open,            \* Dropdown._open
  index,           \* Dropdown._index: [n, str], str when it is a string
  focus,           \* Dropdown: shadowRoot.activeElement ("none", "wrapper" or an item)
  zIndex,          \* Dropdown: this.style.zIndex
  initialZ,        \* Dropdown._initialZ
  peer,            \* a second widget of the same document, a Knob
  box,             \* HBox / VBox: _spacing, _xpos / _ypos, _width, _height, children
  radio,           \* the RadioButtons of the document and the focused one
  calls,           \* how many calls the box has had since its construction
  win,             \* Window: its flags, heights, position and grab offset
  last             \* what the last event or call did (observation of dispatchEvent)

vars == <<cls, min, max, decimals, value, reversed, enabled, listeners, offset,
          startY, startValue, handlePos, isIncrementing, isDecrementing, delay,
          timeout, timers, open, index, focus, zIndex, initialZ, peer, box, radio,
          calls, win, last>>

-----------------------------------------------------------------------------
(* JavaScript numbers *)

NaN == 0 - 99999999

IsNaN(a) == a = NaN

\* a !== b
StrictNe(a, b) == IsNaN(a) \/ IsNaN(b) \/ a # b

\* a < b and a > b (false when either side is NaN)
JsLt(a, b) == ~IsNaN(a) /\ ~IsNaN(b) /\ a < b
JsGt(a, b) == JsLt(b, a)

JsAdd(a, b) == IF IsNaN(a) \/ IsNaN(b) THEN NaN ELSE a + b
JsSub(a, b) == IF IsNaN(a) \/ IsNaN(b) THEN NaN ELSE a - b

\* Math.min, Math.max
MathMin(a, b) == IF IsNaN(a) \/ IsNaN(b) THEN NaN ELSE IF a < b THEN a ELSE b
MathMax(a, b) == IF IsNaN(a) \/ IsNaN(b) THEN NaN ELSE IF a > b THEN a ELSE b

\* a || b for numbers: 0, NaN and undefined (written NaN) are falsy
OrDefault(a, b) == IF IsNaN(a) \/ a = 0 THEN b ELSE a

RECURSIVE Pow10(_)
Pow10(n) == IF n <= 0 THEN 1 ELSE 10 * Pow10(n - 1)

\* 1 / Math.pow(10, decimals), in tenths
Inc(d) == Pow10(1 - d)

\* Math.round(v * mult) / mult with mult = Math.pow(10, d): the nearest
\* multiple of 10^(-d), a half rounded towards +Infinity
RoundTo(v, d) ==
  IF IsNaN(v) THEN NaN
  ELSE ((2 * v + Inc(d)) \div (2 * Inc(d))) * Inc(d)


-----------------------------------------------------------------------------
(* Geometry defaults and input domains *)

HSliderWidth == 150
HSliderHandleSize == 15
VSliderHeight == 150
VSliderHandleSize == 15
KnobSensitivity == 100
FirstDelay == 500
HeldDelay == 50

\* how many steps of the pointer grid (fifths of a slider's track, halves of
\* the knob's sensitivity) a pointer may travel beyond either end
MaxOvershoot == 1

Sliders == {"HSlider", "VSlider"}
Draggables == {"HSlider", "VSlider", "Knob"}

\* arguments of the constructors and setters, in tenths; NaN is an omitted
\* constructor argument
MinInputs == {0, 50}
MaxInputs == {100, 150}
ValueInputs == {0 - 50, 70, 200}
DecimalsInputs == {0 - 1, 0}
KeyCodes == {33, 34, 35, 36, 37, 38, 39, 40, 65}

\* arguments <<min, max>> of setValueMinMax
RangeInputs == {<<0, 100>>, <<50, 150>>}

\* width - handleSize (height - handleSize for a VSlider), in half pixels
TrackLength(c) ==
  IF c = "VSlider" THEN 2 * (VSliderHeight - VSliderHandleSize)
  ELSE 2 * (HSliderWidth - HSliderHandleSize)

HandleLength(c) ==
  IF c = "VSlider" THEN 2 * VSliderHandleSize ELSE 2 * HSliderHandleSize

\* width of an HSlider, height of a VSlider, in half pixels
WrapperLength(c) ==
  IF c = "VSlider" THEN 2 * VSliderHeight ELSE 2 * HSliderWidth

\* handle positions a pointer can ask for: every fifth of the track, and up to
\* MaxOvershoot fifths beyond either end
Grid(c) == {k * (TrackLength(c) \div 5) : k \in (0 - MaxOvershoot)..(5 + MaxOvershoot)}

\* contact points of a pointer-down on the handle, relative to its leading
\* edge: its middle and, for a VSlider, a point of the track above it
GrabOffsets(c) ==
  IF c = "VSlider" THEN {0 - 6, HandleLength(c) \div 2}
  ELSE {HandleLength(c) \div 2}

\* vertical pointer displacements of a knob drag, in pixels: halves of the
\* sensitivity, up to MaxOvershoot halves beyond the full range
KnobDeltas == {k * (KnobSensitivity \div 2) : k \in (0 - 2 - MaxOvershoot)..(2 + MaxOvershoot)}

-----------------------------------------------------------------------------
(* Listeners *)

DragListeners ==
  { <<"document", "mousemove", "_onMouseMove">>,
    <<"document", "touchmove", "_onMouseMove">>,
    <<"document", "mouseup", "_onMouseUp">>,
    <<"document", "touchend", "_onMouseUp">> }

\* HSlider._createListeners / Knob._createListeners, and the listeners that
\* setEnabled adds and removes
InputListeners(c) ==
  { <<(IF c = "Knob" THEN "handle" ELSE "wrapper"), "wheel", "_onWheel">>,
    <<"wrapper", "mousedown", "_onMouseDown">>,
    <<"wrapper", "touchstart", "_onMouseDown">>,
    <<"wrapper", "keydown", "_onKeyDown">> }

StepperListeners ==
  { <<"wrapper", "wheel", "_onWheel">>,
    <<"input", "input", "_onInput">>,
    <<"input", "change", "_onInputChange">>,
    <<"plus", "mousedown", "_onPlusDown">>,
    <<"document", "mouseup", "_onPlusUp">>,
    <<"plus", "keydown", "_onPlusKeyDown">>,
    <<"plus", "keyup", "_onPlusKeyUp">>,
    <<"minus", "mousedown", "_onMinusDown">>,
    <<"document", "mouseup", "_onMinusUp">>,
    <<"minus", "keydown", "_onMinusKeyDown">>,
    <<"minus", "keyup", "_onMinusKeyUp">> }

CreateListeners(c) ==
  IF c = "NumericStepper" THEN StepperListeners ELSE InputListeners(c)

Registered(target, event, handler) == <<target, event, handler>> \in listeners

-----------------------------------------------------------------------------
(* Values *)

\* a rounding that adds half a step before it rounds
roundValueShifted(v, mn, mx, d) ==
  RoundTo(JsAdd(MathMax(MathMin(v, mx), mn), Inc(d) \div 2), d)

\* _roundValue: clamp to [min, max], then round to decimals
roundValue(v, mn, mx, d) == RoundTo(MathMax(MathMin(v, mx), mn), d)

\* getValue(): the sliders and the knob round on read, the stepper stores the
\* rounded value
getValueOf(c, v, mn, mx, d) ==
  IF c = "NumericStepper" THEN v ELSE roundValue(v, mn, mx, d)

getValue == getValueOf(cls, value, min, max, decimals)

\* round(n / d) for d > 0
RoundDiv(n, d) == (2 * n + d) \div (2 * d)

\* _updateHandlePosition: the handle's offsetLeft (HSlider, from getValue())
\* or offsetTop (VSlider, from this._value), a whole number of pixels.  The
\* percent is clamped to [0, 1]; with max = min it is +-Infinity (clamped) or
\* NaN, and a NaN percent gives an invalid style value, which the DOM ignores
updateHandlePosition(c, v, mn, mx, d, rev, old) ==
  LET src == IF c = "VSlider" THEN v ELSE roundValue(v, mn, mx, d)
      t   == TrackLength(c) \div 2
      n0  == IF mx < mn THEN mn - src ELSE src - mn
      d0  == IF mx < mn THEN mn - mx ELSE mx - mn
      \* percent * t, for the percent before reversal
      pt  == IF d0 = 0 THEN (IF src > mn THEN t ELSE 0)
             ELSE IF n0 < 0 THEN 0 ELSE IF n0 > d0 THEN t
             ELSE RoundDiv(n0 * t, d0)
      px  == IF rev THEN t - pt ELSE pt
  IN  IF c \notin Sliders \/ IsNaN(src) \/ (d0 = 0 /\ src = mn) THEN old
      ELSE IF c = "VSlider" THEN 2 * (t - px)
      ELSE 2 * px

\* a mapping that takes the top of a vertical track for its minimum
posToValueFromStart(c, x, mn, mx, rev) ==
  LET t  == TrackLength(c)
      pt == IF rev THEN t - x ELSE x
  IN  IF IsNaN(x) THEN NaN ELSE mn + ((mx - mn) * pt) \div t

\* _calculateValueFromPos: the value for the handle position x (half pixels)
posToValue(c, x, mn, mx, rev) ==
  LET t == TrackLength(c)
      \* percent * t
      pt == IF c = "VSlider"
            THEN (IF rev THEN x ELSE t - x)
            ELSE (IF rev THEN t - x ELSE x)
  IN  IF IsNaN(x) THEN NaN ELSE mn + ((mx - mn) * pt) \div t

\* the positions for which the division in posToValue is exact in tenths
ExactPos(c, x, mn, mx) ==
  IF IsNaN(x) THEN TRUE ELSE ((mx - mn) * x) % TrackLength(c) = 0

\* `last` observes the last event or call: its kind, the number of "change"
\* events it dispatched and the detail of the dispatched event.  The kinds are
\* "new" (construction), "move" (a pointer move on the document), "up" (a
\* pointer release on the document that ran a handler), "cancel" (a
\* setEnabled(false) that found drag listeners registered), "press", "release"
\* and "tick" (the stepper's buttons and timer), and "input" (every other
\* event or call).
\* An event or call that dispatched nothing:
Quiet(op) == [op |-> op, fired |-> 0, detail |-> 0]

\* dispatchEvent(new CustomEvent("change", {detail}))
Fired(op, detail) == [op |-> op, fired |-> 1, detail |-> detail]


-----------------------------------------------------------------------------
(* Construction *)

\* a document without a layout container, and one without radio buttons
NoBox == [spacing |-> 0, xpos |-> 0, width |-> 0, height |-> 0, children |-> <<>>]
NoRadio == [buttons |-> <<>>, focus |-> 0]

\* a document without a Window
NoWindow == [draggable |-> FALSE]

\* new Knob(parent, x, y, label): the second widget, with the constructor's
\* defaults.  `fired` counts the changes it dispatched on the last event
PeerKnob ==
  [value |-> OrDefault(NaN, 0), min |-> OrDefault(NaN, 0), max |-> OrDefault(NaN, 1000),
   startY |-> NaN, startValue |-> NaN, listeners |-> {}, fired |-> 0]

\* Component, HSlider, VSlider, Knob and NumericStepper constructors.
\* the fields of a widget of class c after its constructor, for the arguments
\* v, mn, mx
Constructed(c, v, mn, mx) ==
  [ cls |-> c,
    min |-> OrDefault(mn, 0),
    max |-> OrDefault(mx, IF c = "NumericStepper" THEN 0 ELSE 1000),
    decimals |-> 0,
    value |-> IF c = "NumericStepper"
              THEN roundValue(OrDefault(v, 0), OrDefault(mn, 0), OrDefault(mx, 0), 0)
              ELSE OrDefault(v, 0),
    reversed |-> FALSE,
    enabled |-> TRUE,
    listeners |-> CreateListeners(c),
    offset |-> NaN,
    startY |-> NaN,
    startValue |-> NaN,
    handlePos |-> updateHandlePosition(c, OrDefault(v, 0), OrDefault(mn, 0),
                                     OrDefault(mx, IF c = "NumericStepper" THEN 0 ELSE 1000),
                                     0, FALSE, 0),
    isIncrementing |-> FALSE,
    isDecrementing |-> FALSE,
    delay |-> NaN,
    timeout |-> 0,
    timers |-> {},
    open |-> FALSE,
    index |-> [n |-> 0 - 1, str |-> FALSE],
    focus |-> "none",
    zIndex |-> "",
    initialZ |-> "undefined",
    peer |-> PeerKnob,
    box |-> NoBox,
    radio |-> NoRadio,
    calls |-> 0,
    win |-> NoWindow,
    last |-> Quiet("new") ]

\* the state is that of a newly constructed widget
Construct(c, v, mn, mx) ==
  LET w == Constructed(c, v, mn, mx) IN
  /\ cls = w.cls
  /\ min = w.min
  /\ max = w.max
  /\ decimals = w.decimals
  /\ value = w.value
  /\ reversed = w.reversed
  /\ enabled = w.enabled
  /\ listeners = w.listeners
  /\ offset = w.offset
  /\ startY = w.startY
  /\ startValue = w.startValue
  /\ handlePos = w.handlePos
  /\ isIncrementing = w.isIncrementing
  /\ isDecrementing = w.isDecrementing
  /\ delay = w.delay
  /\ timeout = w.timeout
  /\ timers = w.timers
  /\ open = w.open
  /\ index = w.index
  /\ focus = w.focus
  /\ zIndex = w.zIndex
  /\ initialZ = w.initialZ
  /\ peer = w.peer
  /\ box = w.box
  /\ radio = w.radio
  /\ calls = w.calls
  /\ win = w.win
  /\ last = w.last

\* new HSlider / VSlider / Knob / NumericStepper(parent, x, y, label, v, mn, mx)
\* in place of the widget that was there
New(c, v, mn, mx) ==
  LET w == Constructed(c, v, mn, mx) IN
  /\ cls' = w.cls
  /\ min' = w.min
  /\ max' = w.max
  /\ decimals' = w.decimals
  /\ value' = w.value
  /\ reversed' = w.reversed
  /\ enabled' = w.enabled
  /\ listeners' = w.listeners
  /\ offset' = w.offset
  /\ startY' = w.startY
  /\ startValue' = w.startValue
  /\ handlePos' = w.handlePos
  /\ isIncrementing' = w.isIncrementing
  /\ isDecrementing' = w.isDecrementing
  /\ delay' = w.delay
  /\ timeout' = w.timeout
  /\ timers' = w.timers
  /\ open' = w.open
  /\ index' = w.index
  /\ focus' = w.focus
  /\ zIndex' = w.zIndex
  /\ initialZ' = w.initialZ
  /\ peer' = w.peer
  /\ box' = w.box
  /\ radio' = w.radio
  /\ calls' = w.calls
  /\ win' = w.win
  /\ last' = w.last

Init ==
  \E c \in Draggables, v \in {NaN, 70}, mn \in MinInputs, mx \in MaxInputs :
    Construct(c, v, mn, mx)

-----------------------------------------------------------------------------
(* HSlider, VSlider, Knob: handlers *)

stepperVars == <<isIncrementing, isDecrementing, delay, timeout, timers>>
dropdownVars == <<open, index, focus, zIndex, initialZ>>
layoutVars == <<box, radio, calls, win>>
kindVars == <<cls, peer, layoutVars, dropdownVars>>
configVars == <<kindVars, min, max, decimals, reversed, enabled>>
dragVars == <<offset, startY, startValue>>

\* _updateValue(v), then dispatchEvent("change"): what the handlers of the
\* sliders and the knob do once their guard `v !== current` has passed.
\* VSlider._calculateValueFromPos sends this._value, every other handler
\* sends this.getValue()
UpdateAndDispatch(op, v, rawDetail) ==
  LET nv == getValueOf(cls, v, min, max, decimals) IN
  /\ value' = v
  /\ handlePos' = IF StrictNe(value, v)
                  THEN updateHandlePosition(cls, v, min, max, decimals, reversed, handlePos)
                  ELSE handlePos
  /\ last' = Fired(op, IF rawDetail THEN v ELSE nv)

\* HSlider._calculateValueFromPos / VSlider._calculateValueFromPos
calculateValueFromPos(op, x) ==
  LET v == posToValue(cls, x, min, max, reversed) IN
  IF cls = "VSlider"
  THEN IF StrictNe(v, value)
       THEN UpdateAndDispatch(op, v, TRUE)
       ELSE /\ last' = Quiet(op)
            /\ UNCHANGED <<value, handlePos>>
  ELSE IF StrictNe(v, getValue)
       THEN UpdateAndDispatch(op, v, FALSE)
       ELSE /\ last' = Quiet(op)
            /\ UNCHANGED <<value, handlePos>>

\* _onMouseDown of HSlider, VSlider and Knob for a mousedown (touch = FALSE)
\* or touchstart (touch = TRUE) on the wrapper at p: half pixels from the
\* widget's left / top edge for a slider, clientY in pixels for the knob
MouseDown(touch, p) ==
  LET ev  == IF touch THEN "touchstart" ELSE "mousedown"
      op  == "input"
      off == p - handlePos
      h   == HandleLength(cls)
  IN
  /\ cls \in Draggables
  /\ UNCHANGED <<configVars, stepperVars>>
  /\ IF ~Registered("wrapper", ev, "_onMouseDown")
     THEN /\ last' = Quiet(op)
          /\ UNCHANGED <<value, handlePos, listeners, dragVars>>
     ELSE
       /\ listeners' = listeners \cup DragListeners
       /\ CASE cls = "HSlider" ->
                 /\ UNCHANGED <<startY, startValue>>
                 /\ IF off < 0 \/ off > h
                    THEN /\ offset' = h \div 2
                         /\ ExactPos(cls, p - h \div 2, min, max)
                         /\ calculateValueFromPos(op, p - h \div 2)
                    ELSE /\ offset' = off
                         /\ last' = Quiet(op)
                         /\ UNCHANGED <<value, handlePos>>
            [] cls = "VSlider" ->
                 \* `offsetY > this._handle` compares a number with an element
                 \* and is false; `this._handle / 2` is NaN
                 /\ UNCHANGED <<startY, startValue>>
                 /\ IF off < 0
                    THEN /\ offset' = NaN
                         /\ calculateValueFromPos(op, NaN)
                    ELSE /\ offset' = off
                         /\ last' = Quiet(op)
                         /\ UNCHANGED <<value, handlePos>>
            [] cls = "Knob" ->
                 /\ startY' = p
                 /\ startValue' = getValue
                 /\ last' = Quiet(op)
                 /\ UNCHANGED <<offset, value, handlePos>>

\* the pointer positions tried for a pointer-down: points of the handle, and
\* for an HSlider the points that ask the handle to a position of the grid;
\* a pointer-down reaches the wrapper only from within it
DownPositions ==
  IF cls = "Knob" THEN {40}
  ELSE {p \in {handlePos + o : o \in GrabOffsets(cls)}
               \cup (IF cls = "HSlider"
                     THEN {g + HandleLength(cls) \div 2 : g \in Grid(cls)}
                     ELSE {}) :
          0 <= p /\ p <= WrapperLength(cls)}

\* a pointer move that takes the knob's displacement from the stored value
\* instead of the value at pointer-down
onMouseMoveFromCurrent(touch, x) ==
  LET ev == IF touch THEN "touchmove" ELSE "mousemove" IN
  /\ cls \in Draggables
  /\ IF ~Registered("document", ev, "_onMouseMove")
     THEN /\ last' = Quiet("move")
          /\ UNCHANGED <<value, handlePos>>
     ELSE IF cls = "Knob"
     THEN LET y == (startY + x) - startY
              v == getValue - (y * (max - min)) \div KnobSensitivity
          IN  /\ (y * (max - min)) % KnobSensitivity = 0
              /\ IF StrictNe(v, getValue)
                 THEN UpdateAndDispatch("move", v, FALSE)
                 ELSE /\ last' = Quiet("move")
                      /\ UNCHANGED <<value, handlePos>>
     ELSE LET pos == JsSub(JsAdd(x, offset), offset) IN
          /\ ExactPos(cls, pos, min, max)
          /\ calculateValueFromPos("move", pos)

\* _onMouseMove for a mousemove / touchmove on the document: on a slider the
\* pointer is at x + offset, so that the handle is asked to go to x; on the
\* knob the pointer is at startY + x
onMouseMove(touch, x) ==
  LET ev == IF touch THEN "touchmove" ELSE "mousemove" IN
  /\ cls \in Draggables
  /\ IF ~Registered("document", ev, "_onMouseMove")
     THEN /\ last' = Quiet("move")
          /\ UNCHANGED <<value, handlePos>>
     ELSE IF cls = "Knob"
     THEN LET y == (startY + x) - startY
              \* startValue + -y * mult, mult = (max - min) / sensitivity
              v == startValue - (y * (max - min)) \div KnobSensitivity
          IN  /\ (y * (max - min)) % KnobSensitivity = 0
              /\ IF StrictNe(v, getValue)
                 THEN UpdateAndDispatch("move", v, FALSE)
                 ELSE /\ last' = Quiet("move")
                      /\ UNCHANGED <<value, handlePos>>
     ELSE LET pos == JsSub(JsAdd(x, offset), offset) IN
          /\ ExactPos(cls, pos, min, max)
          /\ calculateValueFromPos("move", pos)

\* a mousemove / touchmove on the document
MouseMove(touch, x) ==
  /\ UNCHANGED <<configVars, stepperVars, listeners, dragVars>>
  /\ onMouseMove(touch, x)

MovePositions == IF cls = "Knob" THEN KnobDeltas ELSE Grid(cls)

\* a key handler that steps the same way whether the slider is reversed or not
KeyDownUnreversed(keyCode) ==
  LET inc == Inc(decimals)
      gv  == getValue
      v   == CASE keyCode = 34 -> JsSub(gv, inc * 10)
               [] keyCode = 33 -> JsAdd(gv, inc * 10)
               [] keyCode = 36 -> min
               [] keyCode = 35 -> max
               [] keyCode \in {37, 40} -> JsSub(gv, inc)
               [] keyCode \in {38, 39} -> JsAdd(gv, inc)
               [] OTHER -> gv
  IN
  /\ cls \in Draggables
  /\ UNCHANGED <<configVars, stepperVars, listeners, dragVars>>
  /\ IF Registered("wrapper", "keydown", "_onKeyDown") /\ StrictNe(v, gv)
     THEN UpdateAndDispatch("input", v, FALSE)
     ELSE /\ last' = Quiet("input")
          /\ UNCHANGED <<value, handlePos>>

\* _onKeyDown of HSlider (inherited by VSlider) and Knob
KeyDown(keyCode) ==
  LET inc0 == Inc(decimals)
      inc  == IF cls # "Knob" /\ reversed THEN 0 - inc0 ELSE inc0
      gv   == getValue
      v    == CASE keyCode = 34 -> JsSub(gv, inc * 10)
                [] keyCode = 33 -> JsAdd(gv, inc * 10)
                [] keyCode = 36 -> min
                [] keyCode = 35 -> max
                [] keyCode \in {37, 40} -> JsSub(gv, inc)
                [] keyCode \in {38, 39} -> JsAdd(gv, inc)
                [] OTHER -> gv
  IN
  /\ cls \in Draggables
  /\ UNCHANGED <<configVars, stepperVars, listeners, dragVars>>
  /\ IF Registered("wrapper", "keydown", "_onKeyDown") /\ StrictNe(v, gv)
     THEN UpdateAndDispatch("input", v, FALSE)
     ELSE /\ last' = Quiet("input")
          /\ UNCHANGED <<value, handlePos>>


\* NumericStepper.setValue(v): the new this._value
stepperSetValue(v, mn, mx, d) == roundValue(v, mn, mx, d)

\* _onWheel of HSlider, Knob and NumericStepper for a wheel event with
\* deltaY of sign dy
Wheel(dy) ==
  LET target == IF cls = "Knob" THEN "handle" ELSE "wrapper"
      inc == Inc(decimals)
      gv  == getValue
      v   == IF dy > 0 THEN JsAdd(gv, inc)
             ELSE IF dy < 0 THEN JsSub(gv, inc) ELSE gv
  IN
  /\ UNCHANGED <<configVars, stepperVars, listeners, dragVars>>
  /\ IF ~Registered(target, "wheel", "_onWheel")
     THEN /\ last' = Quiet("input")
          /\ UNCHANGED <<value, handlePos>>
     ELSE IF cls = "NumericStepper"
     THEN /\ UNCHANGED handlePos
          /\ IF dy = 0
             THEN /\ last' = Quiet("input")
                  /\ UNCHANGED value
             ELSE /\ value' = stepperSetValue(v, min, max, decimals)
                  /\ last' = Fired("input", value')
     ELSE IF StrictNe(v, gv)
          THEN UpdateAndDispatch("input", v, FALSE)
          ELSE /\ last' = Quiet("input")
               /\ UNCHANGED <<value, handlePos>>

\* _onMouseUp of the sliders and the knob, _onPlusUp and _onMinusUp of the
\* stepper, for a mouseup (touch = FALSE) or touchend (touch = TRUE) on the
\* document
onMouseUp(touch) ==
  LET ev == IF touch THEN "touchend" ELSE "mouseup" IN
  /\ last' = Quiet(IF \E l \in listeners : l[1] = "document" /\ l[2] = ev
                   THEN "up" ELSE "input")
  /\ listeners' = IF Registered("document", ev, "_onMouseUp")
                  THEN listeners \ DragListeners ELSE listeners
  /\ isIncrementing' = IF Registered("document", ev, "_onPlusUp")
                       THEN FALSE ELSE isIncrementing
  /\ isDecrementing' = IF Registered("document", ev, "_onMinusUp")
                       THEN FALSE ELSE isDecrementing

\* a pointer release that removes only the listeners of the kind of pointer
\* that was released (mouse or touch)
MouseUpOfKind(touch) ==
  LET ev   == IF touch THEN "touchend" ELSE "mouseup"
      mine == {l \in DragListeners :
                 l[2] \in (IF touch THEN {"touchmove", "touchend"}
                                    ELSE {"mousemove", "mouseup"})}
  IN
  /\ UNCHANGED <<configVars, value, handlePos, dragVars, stepperVars>>
  /\ last' = Quiet(IF \E l \in listeners : l[1] = "document" /\ l[2] = ev
                   THEN "up" ELSE "input")
  /\ listeners' = IF Registered("document", ev, "_onMouseUp")
                  THEN listeners \ mine ELSE listeners

\* a mouseup (touch = FALSE) or touchend (touch = TRUE) on the document
MouseUp(touch) ==
  /\ UNCHANGED <<configVars, value, handlePos, dragVars, delay, timeout, timers>>
  /\ onMouseUp(touch)

-----------------------------------------------------------------------------
(* Public setters *)

\* setValue(v)
setValue(v) ==
  /\ UNCHANGED <<configVars, stepperVars, listeners, dragVars>>
  /\ CASE cls \in Sliders ->
            \* _updateValue(v)
            /\ value' = v
            /\ handlePos' = IF StrictNe(value, v)
                            THEN updateHandlePosition(cls, v, min, max, decimals, reversed, handlePos)
                            ELSE handlePos
       [] cls = "Knob" ->
            /\ value' = v
            /\ UNCHANGED handlePos
       [] cls = "NumericStepper" ->
            /\ value' = stepperSetValue(v, min, max, decimals)
            /\ UNCHANGED handlePos
  /\ last' = Quiet("input")

\* setMin(m) (isMax = FALSE) and setMax(m) (isMax = TRUE)
setBound(isMax, m) ==
  LET mn == IF isMax THEN min ELSE m
      mx == IF isMax THEN m ELSE max
  IN
  /\ min' = mn
  /\ max' = mx
  /\ UNCHANGED <<kindVars, decimals, reversed, enabled, stepperVars, listeners, dragVars>>
  /\ IF cls = "NumericStepper"
     THEN /\ value' = IF (isMax /\ JsLt(m, value)) \/ (~isMax /\ JsGt(m, value))
                      THEN stepperSetValue(m, mn, mx, decimals)
                      ELSE value
          /\ UNCHANGED handlePos
     ELSE \* _updateValue(this.getValue()); the sliders then _updateHandlePosition()
          /\ value' = roundValue(value, mn, mx, decimals)
          /\ handlePos' = updateHandlePosition(cls, value', mn, mx, decimals, reversed, handlePos)
  /\ last' = Quiet("input")

\* setValueMinMax(v, mn, mx)
setValueMinMax(v, mn, mx) ==
  /\ min' = mn
  /\ max' = mx
  /\ UNCHANGED <<kindVars, decimals, reversed, enabled, stepperVars, listeners, dragVars>>
  /\ CASE cls \in Sliders ->
            /\ value' = v
            /\ handlePos' = IF StrictNe(value, v)
                            THEN updateHandlePosition(cls, v, mn, mx, decimals, reversed, handlePos)
                            ELSE handlePos
       [] cls = "Knob" ->
            /\ value' = v
            /\ UNCHANGED handlePos
       [] cls = "NumericStepper" ->
            /\ value' = stepperSetValue(v, mn, mx, decimals)
            /\ UNCHANGED handlePos
  /\ last' = Quiet("input")

\* setDecimals(d)
setDecimals(d) ==
  /\ decimals' = d
  /\ UNCHANGED <<kindVars, min, max, reversed, enabled, stepperVars, listeners, dragVars>>
  /\ IF cls = "NumericStepper"
     THEN /\ value' = roundValue(value, min, max, d)
          /\ UNCHANGED handlePos
     ELSE /\ UNCHANGED value
          /\ handlePos' = updateHandlePosition(cls, value, min, max, d, reversed, handlePos)
  /\ last' = Quiet("input")

\* HSlider.setReversed(r), inherited by VSlider
setReversed(r) ==
  /\ cls \in Sliders
  /\ reversed' = r
  /\ UNCHANGED <<kindVars, min, max, decimals, enabled, value, handlePos,
                 stepperVars, listeners, dragVars>>
  /\ last' = Quiet("input")

\* a setEnabled that leaves the document alone when it disables
setEnabledKeepingDrag(e) ==
  /\ UNCHANGED <<kindVars, min, max, decimals, reversed, value, handlePos,
                 stepperVars, dragVars>>
  /\ last' = Quiet(IF enabled /\ ~e /\ cls \in Draggables
                      /\ listeners \cap DragListeners # {}
                   THEN "cancel" ELSE "input")
  /\ IF enabled = e
     THEN UNCHANGED <<enabled, listeners>>
     ELSE /\ enabled' = e
          /\ listeners' = IF e THEN listeners \cup InputListeners(cls)
                          ELSE listeners \ InputListeners(cls)

\* setEnabled(e) of HSlider (inherited by VSlider), Knob and NumericStepper
setEnabled(e) ==
  /\ UNCHANGED <<kindVars, min, max, decimals, reversed, value, handlePos,
                 stepperVars, dragVars>>
  /\ last' = Quiet(IF enabled /\ ~e /\ cls \in Draggables
                      /\ listeners \cap DragListeners # {}
                   THEN "cancel" ELSE "input")
  /\ IF enabled = e
     THEN UNCHANGED <<enabled, listeners>>
     ELSE /\ enabled' = e
          /\ listeners' =
               IF cls = "NumericStepper"
               THEN IF e THEN listeners \cup {<<"wrapper", "wheel", "_onWheel">>}
                    ELSE listeners \ {<<"wrapper", "wheel", "_onWheel">>}
               ELSE IF e THEN listeners \cup InputListeners(cls)
                    ELSE (listeners \ InputListeners(cls)) \ DragListeners


-----------------------------------------------------------------------------
(* NumericStepper: press-and-hold repeat *)

\* setTimeout: an id that no pending timer has
NewTimerId(ts) == CHOOSE i \in 1..(Cardinality(ts) + 1) : \A t \in ts : t.id # i

\* a clearTimeout that cancels nothing
clearTimeoutNothing(ts, id) == ts

\* clearTimeout(id)
clearTimeout(ts, id) == {t \in ts : t.id # id}

\* a step that arms its timer and leaves the delay as it is
StepKeepingDelay(op, dir, inc, dec, dl, ts) ==
  LET active == IF dir > 0 THEN inc ELSE dec
      v  == roundValue(JsAdd(value, dir * Inc(decimals)), min, max, decimals)
      id == NewTimerId(ts)
  IN
  /\ isIncrementing' = inc
  /\ isDecrementing' = dec
  /\ UNCHANGED <<configVars, listeners, dragVars, handlePos>>
  /\ delay' = dl
  /\ IF active
     THEN /\ IF StrictNe(value, v)
             THEN /\ value' = stepperSetValue(v, min, max, decimals)
                  /\ last' = Fired(op, value')
             ELSE /\ UNCHANGED value
                  /\ last' = Quiet(op)
          /\ timers' = ts \cup {[id |-> id,
                                 fn |-> IF dir > 0 THEN "_increment" ELSE "_decrement",
                                 delay |-> dl]}
          /\ timeout' = id
     ELSE /\ UNCHANGED value
          /\ last' = Quiet(op)
          /\ timers' = ts
          /\ UNCHANGED timeout

\* a step that stops its repeat once the value no longer changes
StepUntilBound(op, dir, inc, dec, dl, ts) ==
  LET active == IF dir > 0 THEN inc ELSE dec
      v  == roundValue(JsAdd(value, dir * Inc(decimals)), min, max, decimals)
      id == NewTimerId(ts)
  IN
  /\ isIncrementing' = inc
  /\ isDecrementing' = dec
  /\ UNCHANGED <<configVars, listeners, dragVars, handlePos>>
  /\ IF active /\ StrictNe(value, v)
     THEN /\ value' = stepperSetValue(v, min, max, decimals)
          /\ last' = Fired(op, value')
          /\ timers' = ts \cup {[id |-> id,
                                 fn |-> IF dir > 0 THEN "_increment" ELSE "_decrement",
                                 delay |-> dl]}
          /\ timeout' = id
          /\ delay' = IF dl = FirstDelay THEN HeldDelay ELSE dl
     ELSE /\ UNCHANGED value
          /\ last' = Quiet(op)
          /\ timers' = ts
          /\ UNCHANGED timeout
          /\ delay' = dl

\* _increment() (dir = 1) / _decrement() (dir = -1), run with the flags inc,
\* dec, the delay dl and the pending timers ts
Step(op, dir, inc, dec, dl, ts) ==
  LET active == IF dir > 0 THEN inc ELSE dec
      v  == roundValue(JsAdd(value, dir * Inc(decimals)), min, max, decimals)
      id == NewTimerId(ts)
  IN
  /\ isIncrementing' = inc
  /\ isDecrementing' = dec
  /\ UNCHANGED <<configVars, listeners, dragVars, handlePos>>
  /\ IF active
     THEN /\ IF StrictNe(value, v)
             THEN /\ value' = stepperSetValue(v, min, max, decimals)
                  /\ last' = Fired(op, value')
             ELSE /\ UNCHANGED value
                  /\ last' = Quiet(op)
          /\ timers' = ts \cup {[id |-> id,
                                 fn |-> IF dir > 0 THEN "_increment" ELSE "_decrement",
                                 delay |-> dl]}
          /\ timeout' = id
          /\ delay' = IF dl = FirstDelay THEN HeldDelay ELSE dl
     ELSE /\ UNCHANGED value
          /\ last' = Quiet(op)
          /\ timers' = ts
          /\ UNCHANGED timeout
          /\ delay' = dl

\* _onPlusDown (dir = 1) / _onMinusDown (dir = -1)
onDown(op, dir) ==
  Step(op, dir,
       IF dir > 0 THEN TRUE ELSE isIncrementing,
       IF dir < 0 THEN TRUE ELSE isDecrementing,
       FirstDelay, clearTimeout(timers, timeout))

\* a mousedown on the plus (dir = 1) or minus (dir = -1) button
ButtonMouseDown(dir) ==
  /\ cls = "NumericStepper"
  /\ IF dir > 0 THEN Registered("plus", "mousedown", "_onPlusDown")
                ELSE Registered("minus", "mousedown", "_onMinusDown")
  /\ onDown("press", dir)

\* _onPlusKeyDown / _onMinusKeyDown for a keydown on the button
ButtonKeyDown(dir, keyCode) ==
  /\ cls = "NumericStepper"
  /\ IF dir > 0 THEN Registered("plus", "keydown", "_onPlusKeyDown")
                ELSE Registered("minus", "keydown", "_onMinusKeyDown")
  /\ IF keyCode = 13
     THEN onDown("press", dir)
     ELSE /\ last' = Quiet("input")
          /\ UNCHANGED <<configVars, listeners, dragVars, handlePos, value, stepperVars>>

\* _onPlusKeyUp / _onMinusKeyUp for a keyup on the button
ButtonKeyUp(dir, keyCode) ==
  /\ cls = "NumericStepper"
  /\ IF dir > 0 THEN Registered("plus", "keyup", "_onPlusKeyUp")
                ELSE Registered("minus", "keyup", "_onMinusKeyUp")
  /\ last' = Quiet("release")
  /\ UNCHANGED <<configVars, listeners, dragVars, handlePos, value, delay, timeout, timers>>
  /\ isIncrementing' = IF keyCode = 13 /\ dir > 0 THEN FALSE ELSE isIncrementing
  /\ isDecrementing' = IF keyCode = 13 /\ dir < 0 THEN FALSE ELSE isDecrementing

\* a tick that takes its button as still held
TimerFireHeld(t) ==
  /\ t \in timers
  /\ Step("tick", IF t.fn = "_increment" THEN 1 ELSE 0 - 1,
          IF t.fn = "_increment" THEN TRUE ELSE isIncrementing,
          IF t.fn = "_decrement" THEN TRUE ELSE isDecrementing,
          delay, timers \ {t})

\* a pending timer fires: () => this._increment() / () => this._decrement()
TimerFire(t) ==
  /\ t \in timers
  /\ Step("tick", IF t.fn = "_increment" THEN 1 ELSE 0 - 1,
          isIncrementing, isDecrementing, delay, timers \ {t})

-----------------------------------------------------------------------------
(* NumericStepper: the text field *)

\* a text is a sequence of characters; the texts a user types
TextInputs ==
  { <<>>, <<"a", "b">>, <<"-">>, <<".">>, <<"7">>, <<"2", "0">>, <<"7", "x">>,
    <<"-", "5">>, <<"1", ".", "5">>, <<"3", "-", "1">> }

\* the value of a decimal digit, -1 for any other character
Digit(c) ==
  CASE c = "0" -> 0 [] c = "1" -> 1 [] c = "2" -> 2 [] c = "3" -> 3 [] c = "4" -> 4
    [] c = "5" -> 5 [] c = "6" -> 6 [] c = "7" -> 7 [] c = "8" -> 8 [] c = "9" -> 9
    [] OTHER -> 0 - 1

\* value.replace(/[^-.0-9]/g, "")
Strip(s) == SelectSeq(s, LAMBDA c : c = "-" \/ c = "." \/ Digit(c) >= 0)

\* the run of digits of s from position i on: its value n after acc, and the
\* position i behind it
RECURSIVE ParseDigits(_, _, _)
ParseDigits(s, i, acc) ==
  IF i <= Len(s) /\ Digit(s[i]) >= 0
  THEN ParseDigits(s, i + 1, 10 * acc + Digit(s[i]))
  ELSE [n |-> acc, i |-> i]

\* parseFloat(s), in tenths: the longest prefix of s that is a decimal number
\* (a sign, digits, a point and one more digit), NaN when there is none
ParseFloat(s) ==
  LET neg  == Len(s) > 0 /\ s[1] = "-"
      i0   == IF neg THEN 2 ELSE 1
      int  == ParseDigits(s, i0, 0)
      frac == IF int.i + 1 <= Len(s) /\ s[int.i] = "."
              THEN Digit(s[int.i + 1]) ELSE 0 - 1
      n    == 10 * int.n + (IF frac >= 0 THEN frac ELSE 0)
  IN  IF int.i = i0 /\ frac < 0 THEN NaN
      ELSE IF neg THEN 0 - n ELSE n

\* the user types `text` into the field (_onInput strips it) and commits it
\* (_onInputChange); a disabled field takes no input
InputCommit(text) ==
  LET shown == IF Registered("input", "input", "_onInput") THEN Strip(text) ELSE text
      v     == roundValue(ParseFloat(shown), min, max, decimals)
  IN
  /\ cls = "NumericStepper"
  /\ enabled
  /\ Registered("input", "change", "_onInputChange")
  /\ UNCHANGED <<configVars, listeners, dragVars, handlePos, stepperVars>>
  /\ IF StrictNe(value, v)
     THEN /\ value' = v
          /\ last' = Fired("input", v)
     ELSE /\ UNCHANGED value
          /\ last' = Quiet("input")

-----------------------------------------------------------------------------
(* Dropdown *)

\* the length of the items array
ItemCount == 3

\* Style.popupZIndex
PopupZIndex == "popup"

\* arguments of setIndex and of the constructor; NaN is undefined
IndexInputs == {NaN, 0 - 1, 0, ItemCount - 1, ItemCount}

NoFocus == <<"none", 0>>
WrapperFocus == <<"wrapper", 0>>
ItemFocus(i) == <<"item", i>>

\* Dropdown._createListeners and _createItem
DropdownListeners ==
  { <<"wrapper", "click", "() => this._toggle()">>,
    <<"item", "click", "_onItemClick">>,
    <<"host", "keydown", "_onKeyPress">>,
    <<"host", "blur", "() => this.close()">> }

boundedVars == <<min, max, decimals, value, reversed, dragVars, handlePos, stepperVars, peer,
                 layoutVars>>

\* the list's state: this._open, this.style.zIndex, this._initialZ
Panel == [open |-> open, zIndex |-> zIndex, initialZ |-> initialZ]

SetPanel(s) ==
  /\ open' = s.open
  /\ zIndex' = s.zIndex
  /\ initialZ' = s.initialZ

\* _toggle(); assigning undefined to style.zIndex is an invalid value, which
\* the DOM ignores
toggle(s) ==
  IF ~s.open
  THEN [open |-> TRUE, zIndex |-> PopupZIndex, initialZ |-> s.zIndex]
  ELSE [open |-> FALSE,
        zIndex |-> IF s.initialZ = "undefined" THEN s.zIndex ELSE s.initialZ,
        initialZ |-> s.initialZ]

\* close()
close(s) == toggle([s EXCEPT !.open = TRUE])

\* setIndex(i): the new this._index; str when i is a string (an attribute value)
setIndexOf(i, str) ==
  IF ~IsNaN(i) /\ 0 <= i /\ i < ItemCount
  THEN [n |-> i, str |-> str]
  ELSE [n |-> 0 - 1, str |-> FALSE]

\* an element inside the closed list cannot keep the focus
FocusAfter(f, s) == IF f[1] = "item" /\ ~s.open THEN NoFocus ELSE f

\* the click listeners of the wrapper, run in the order they were added
wrapperClick(s) ==
  LET s1 == IF Registered("wrapper", "click", "() => this._toggle()") THEN toggle(s) ELSE s
  IN  IF Registered("wrapper", "click", "_toggle") THEN toggle(s1) ELSE s1

\* _onItemClick for the item i: stopPropagation, setIndex(data-index), _toggle,
\* dispatchEvent("change"), this._wrapper.focus()
onItemClick(i) ==
  /\ index' = setIndexOf(i, TRUE)
  /\ SetPanel(toggle(Panel))
  /\ last' = Fired("input", index'.n)
  /\ focus' = WrapperFocus

DropdownConstruct(i, z) ==
  /\ cls = "Dropdown"
  /\ enabled = TRUE
  /\ listeners = DropdownListeners
  /\ open = FALSE
  /\ index = setIndexOf(i, FALSE)
  /\ focus = NoFocus
  /\ zIndex = z
  /\ initialZ = "undefined"
  /\ peer = PeerKnob
  /\ box = NoBox
  /\ radio = NoRadio
  /\ calls = 0
  /\ win = NoWindow
  /\ last = Quiet("new")
  /\ min = 0 /\ max = 0 /\ decimals = 0 /\ value = 0 /\ reversed = FALSE
  /\ offset = NaN /\ startY = NaN /\ startValue = NaN /\ handlePos = 0
  /\ isIncrementing = FALSE /\ isDecrementing = FALSE
  /\ delay = NaN /\ timeout = 0 /\ timers = {}

\* a click of the user on the dropdown outside its items; the click focuses
\* the wrapper
WrapperClick ==
  /\ cls = "Dropdown"
  /\ SetPanel(wrapperClick(Panel))
  /\ focus' = WrapperFocus
  /\ last' = Quiet("input")
  /\ UNCHANGED <<cls, boundedVars, enabled, listeners, index>>

\* a click of the user on the item i of the open list
ItemClick(i) ==
  /\ cls = "Dropdown"
  /\ open
  /\ Registered("item", "click", "_onItemClick")
  /\ onItemClick(i)
  /\ UNCHANGED <<cls, boundedVars, enabled, listeners>>

\* _onKeyPress for a keydown that reaches the host from its focused element
KeyPress(keyCode) ==
  /\ cls = "Dropdown"
  /\ focus # NoFocus
  /\ Registered("host", "keydown", "_onKeyPress")
  /\ UNCHANGED <<cls, boundedVars, enabled, listeners>>
  /\ IF keyCode = 13 /\ enabled
     THEN \* this.shadowRoot.activeElement.click()
          IF focus = WrapperFocus
          THEN /\ SetPanel(wrapperClick(Panel))
               /\ last' = Quiet("input")
               /\ UNCHANGED <<index, focus>>
          ELSE onItemClick(focus[2])
     ELSE IF keyCode = 27
     THEN /\ SetPanel(close(Panel))
          /\ focus' = FocusAfter(focus, close(Panel))
          /\ last' = Quiet("input")
          /\ UNCHANGED index
     ELSE IF keyCode \in {38, 40}
     THEN LET edge  == IF keyCode = 40 THEN ItemCount - 1 ELSE 0
              first == IF keyCode = 40 THEN 0 ELSE ItemCount - 1
              step  == IF keyCode = 40 THEN 1 ELSE 0 - 1
          IN  /\ focus' = IF focus = WrapperFocus \/ focus = ItemFocus(edge)
                          THEN (IF open THEN ItemFocus(first) ELSE focus)
                          ELSE ItemFocus(focus[2] + step)
              /\ last' = Quiet("input")
              /\ UNCHANGED <<index, open, zIndex, initialZ>>
     ELSE /\ last' = Quiet("input")
          /\ UNCHANGED <<index, focus, open, zIndex, initialZ>>

\* the focus leaves the dropdown: () => this.close()
Blur ==
  /\ cls = "Dropdown"
  /\ focus # NoFocus
  /\ focus' = NoFocus
  /\ SetPanel(IF Registered("host", "blur", "() => this.close()") THEN close(Panel) ELSE Panel)
  /\ last' = Quiet("input")
  /\ UNCHANGED <<cls, boundedVars, enabled, listeners, index>>

\* open()
Open ==
  /\ cls = "Dropdown"
  /\ SetPanel(toggle([Panel EXCEPT !.open = FALSE]))
  /\ last' = Quiet("input")
  /\ UNCHANGED <<cls, boundedVars, enabled, listeners, index, focus>>

\* close()
Close ==
  /\ cls = "Dropdown"
  /\ SetPanel(close(Panel))
  /\ focus' = FocusAfter(focus, close(Panel))
  /\ last' = Quiet("input")
  /\ UNCHANGED <<cls, boundedVars, enabled, listeners, index>>

\* setIndex(i)
setIndex(i) ==
  /\ cls = "Dropdown"
  /\ index' = setIndexOf(i, FALSE)
  /\ last' = Quiet("input")
  /\ UNCHANGED <<cls, boundedVars, enabled, listeners, focus, open, zIndex, initialZ>>

\* Dropdown.setEnabled(e); line 275 reads `return this this;` and is taken as
\* `return this;`
dropdownSetEnabled(e) ==
  /\ cls = "Dropdown"
  /\ last' = Quiet("input")
  /\ UNCHANGED <<cls, boundedVars, index>>
  /\ IF enabled = e
     THEN UNCHANGED <<enabled, listeners, focus, open, zIndex, initialZ>>
     ELSE /\ enabled' = e
          /\ IF e
             THEN /\ listeners' = listeners \cup {<<"wrapper", "click", "_toggle">>}
                  /\ UNCHANGED <<focus, open, zIndex, initialZ>>
             ELSE /\ listeners' = listeners \ {<<"wrapper", "click", "_toggle">>}
                  /\ SetPanel(close(Panel))
                  /\ focus' = FocusAfter(focus, close(Panel))

InitDropdown ==
  \E i \in IndexInputs, z \in {"", "5"} : DropdownConstruct(i, z)

NextDropdown ==
  \/ WrapperClick
  \/ \E i \in 0..(ItemCount - 1) : ItemClick(i)
  \/ \E k \in {13, 27, 38, 40, 65} : KeyPress(k)
  \/ Blur
  \/ Open
  \/ Close
  \/ \E i \in IndexInputs : setIndex(i)
  \/ \E e \in BOOLEAN : dropdownSetEnabled(e)

SpecDropdown == InitDropdown /\ [][NextDropdown]_vars

-----------------------------------------------------------------------------
(* HSlider, VSlider, Knob *)

Next ==
  \/ \E touch \in BOOLEAN : \E p \in DownPositions : MouseDown(touch, p)
  \/ \E touch \in BOOLEAN : \E x \in MovePositions : MouseMove(touch, x)
  \/ \E touch \in BOOLEAN : MouseUp(touch)
  \/ \E k \in KeyCodes : KeyDown(k)
  \/ \E dy \in {0 - 1, 0, 1} : Wheel(dy)
  \/ \E v \in ValueInputs : setValue(v)
  \/ \E m \in MinInputs : setBound(FALSE, m)
  \/ \E m \in MaxInputs : setBound(TRUE, m)
  \/ \E v \in ValueInputs, r \in RangeInputs : setValueMinMax(v, r[1], r[2])
  \/ \E d \in DecimalsInputs : setDecimals(d)
  \/ \E r \in BOOLEAN : setReversed(r)
  \/ \E e \in BOOLEAN : setEnabled(e)

Spec == Init /\ [][Next]_vars

-----------------------------------------------------------------------------
(* NumericStepper *)

InitStepper ==
  \E v \in {NaN, 70}, mn \in MinInputs, mx \in MaxInputs :
    Construct("NumericStepper", v, mn, mx)

NextStepper ==
  \/ \E dir \in {0 - 1, 1} : ButtonMouseDown(dir)
  \/ \E dir \in {0 - 1, 1} : \E k \in {13, 65} : ButtonKeyDown(dir, k)
  \/ \E dir \in {0 - 1, 1} : \E k \in {13, 65} : ButtonKeyUp(dir, k)
  \/ \E t \in timers : TimerFire(t)
  \/ \E touch \in BOOLEAN : MouseUp(touch)
  \/ \E dy \in {0 - 1, 0, 1} : Wheel(dy)
  \/ \E text \in TextInputs : InputCommit(text)
  \/ \E v \in ValueInputs : setValue(v)
  \/ \E m \in MinInputs : setBound(FALSE, m)
  \/ \E m \in MaxInputs : setBound(TRUE, m)
  \/ \E v \in ValueInputs, r \in RangeInputs : setValueMinMax(v, r[1], r[2])
  \/ \E d \in DecimalsInputs : setDecimals(d)
  \/ \E e \in BOOLEAN : setEnabled(e)

SpecStepper == InitStepper /\ [][NextStepper]_vars

-----------------------------------------------------------------------------
(* Two widgets of one document: an HSlider and a Knob.  An event delivered to *)
(* the document runs the listeners of both, in the order they were added.     *)

\* Knob._onMouseDown of the second widget w for a pointer-down at clientY = y
peerMouseDown(w, y) ==
  [w EXCEPT !.startY = y,
            !.startValue = roundValue(w.value, w.min, w.max, 0),
            !.listeners = w.listeners \cup DragListeners,
            !.fired = 0]

\* Knob._onMouseMove of the second widget w for a pointer move at clientY = y
peerMouseMove(w, touch, y) ==
  LET ev == IF touch THEN "touchmove" ELSE "mousemove"
      dy == JsSub(y, w.startY)
      v  == IF IsNaN(dy) THEN NaN
            ELSE w.startValue - (dy * (w.max - w.min)) \div KnobSensitivity
  IN  IF <<"document", ev, "_onMouseMove">> \in w.listeners
         /\ StrictNe(v, roundValue(w.value, w.min, w.max, 0))
      THEN [w EXCEPT !.value = v, !.fired = 1]
      ELSE [w EXCEPT !.fired = 0]

\* Knob._onMouseUp of the second widget w
peerMouseUp(w, touch) ==
  LET ev == IF touch THEN "touchend" ELSE "mouseup" IN
  IF <<"document", ev, "_onMouseUp">> \in w.listeners
  THEN [w EXCEPT !.listeners = w.listeners \ DragListeners, !.fired = 0]
  ELSE [w EXCEPT !.fired = 0]

\* the clientY of a pointer on or around the second widget
PeerPositions == {40 + d : d \in KnobDeltas}

\* a mousedown / touchstart on the second widget
PeerMouseDown(touch, y) ==
  /\ peer' = peerMouseDown(peer, y)
  /\ last' = Quiet("input")
  /\ UNCHANGED <<cls, layoutVars, dropdownVars, min, max, decimals, reversed, enabled, value,
                 handlePos, listeners, dragVars, stepperVars>>

\* a mousemove / touchmove that reaches the document with the pointer at the
\* handle position x of the slider and at clientY = y
PairMove(touch, x, y) ==
  /\ onMouseMove(touch, x)
  /\ peer' = peerMouseMove(peer, touch, y)
  /\ UNCHANGED <<cls, layoutVars, dropdownVars, min, max, decimals, reversed, enabled,
                 listeners, dragVars, stepperVars>>

\* a mouseup / touchend that reaches the document
PairUp(touch) ==
  /\ onMouseUp(touch)
  /\ peer' = peerMouseUp(peer, touch)
  /\ UNCHANGED <<cls, layoutVars, dropdownVars, min, max, decimals, reversed, enabled, value,
                 handlePos, dragVars, delay, timeout, timers>>

InitPair == \E mx \in MaxInputs : Construct("HSlider", NaN, NaN, mx)

NextPair ==
  \/ \E touch \in BOOLEAN : \E p \in DownPositions : MouseDown(touch, p)
  \/ \E touch \in BOOLEAN : PeerMouseDown(touch, 40)
  \/ \E touch \in BOOLEAN : \E x \in MovePositions : \E y \in PeerPositions :
       PairMove(touch, x, y)
  \/ \E touch \in BOOLEAN : PairUp(touch)

SpecPair == InitPair /\ [][NextPair]_vars

-----------------------------------------------------------------------------
(* HSlider, VSlider, Knob: the keyboard, the wheel and the public setters *)

NextKeys ==
  \/ \E k \in KeyCodes : KeyDown(k)
  \/ \E dy \in {0 - 1, 0, 1} : Wheel(dy)
  \/ \E v \in ValueInputs : setValue(v)
  \/ \E m \in MinInputs : setBound(FALSE, m)
  \/ \E m \in MaxInputs : setBound(TRUE, m)
  \/ \E v \in ValueInputs, r \in RangeInputs : setValueMinMax(v, r[1], r[2])
  \/ \E d \in DecimalsInputs : setDecimals(d)
  \/ \E r \in BOOLEAN : setReversed(r)
  \/ \E e \in BOOLEAN : setEnabled(e)

SpecKeys == Init /\ [][NextKeys]_vars

-----------------------------------------------------------------------------
(* Construction of the bounded-value widgets with any arguments *)

Bounded == {"HSlider", "VSlider", "Knob", "NumericStepper"}

\* the min and max arguments of a constructor; NaN is an omitted argument
MinArgs == {NaN, 0, 50}
MaxArgs == {NaN, 0, 100}

InitNew == \E c \in Bounded : Construct(c, NaN, NaN, NaN)

NextNew ==
  \/ \E c \in Bounded, v \in {NaN, 70}, mn \in MinArgs, mx \in MaxArgs : New(c, v, mn, mx)
  \/ \E v \in ValueInputs : setValue(v)
  \/ \E d \in DecimalsInputs : setDecimals(d)

SpecNew == InitNew /\ [][NextNew]_vars

-----------------------------------------------------------------------------
(* HBox, VBox *)

\* the most calls a box is given after its construction
MaxCalls == 3

Boxes == {"HBox", "VBox"}

\* the spacing argument of the constructor (NaN is undefined) and of setSpacing
SpacingArgs == {NaN, 0, 10}
SpacingInputs == {0, 10}

\* widths and heights of the children, and their position across the box
ChildSizes == {0, 20, 30}
ChildOffsets == {0, 5}

\* every field of the widget the box does not have
nonLayoutVars == <<min, max, decimals, value, reversed, enabled, listeners, dragVars,
                   handlePos, stepperVars, dropdownVars, peer, radio, win>>

\* the children of the box without the child of this id: the DOM moves a node
\* that is appended again
Without(kids, id) == SelectSeq(kids, LAMBDA k : k.id # id)

\* HBox.appendChild that never adds the spacing
hboxAppendChildNoSpacing(b, child) ==
  [b EXCEPT !.children = Append(Without(b.children, child.id), [child EXCEPT !.x = b.xpos]),
            !.height = MathMax(b.height, child.y + child.height),
            !.xpos = b.xpos + child.width,
            !.width = b.xpos + child.width]

\* HBox.appendChild(child)
hboxAppendChild(b, child) ==
  LET xpos == IF b.xpos > 0 THEN b.xpos + b.spacing ELSE b.xpos IN
  [b EXCEPT !.children = Append(Without(b.children, child.id), [child EXCEPT !.x = xpos]),
            !.height = MathMax(b.height, child.y + child.height),
            !.xpos = xpos + child.width,
            !.width = xpos + child.width]

\* VBox.appendChild(child)
vboxAppendChild(b, child) ==
  LET ypos == IF b.xpos > 0 THEN b.xpos + b.spacing ELSE b.xpos IN
  [b EXCEPT !.children = Append(Without(b.children, child.id), [child EXCEPT !.y = ypos]),
            !.width = MathMax(b.width, child.x + child.width),
            !.xpos = ypos + child.height,
            !.height = ypos + child.height]

\* the loop of HBox.layout() from the child i on
RECURSIVE hboxLayoutFrom(_, _, _, _, _)
hboxLayoutFrom(kids, i, xpos, height, spacing) ==
  IF i > Len(kids)
  THEN [children |-> kids, xpos |-> xpos, height |-> height]
  ELSE LET x == IF i > 1 THEN xpos + spacing ELSE xpos IN
       hboxLayoutFrom([kids EXCEPT ![i].x = x], i + 1, x + kids[i].width,
                      MathMax(height, kids[i].y + kids[i].height), spacing)

\* HBox.layout() that goes on from the current _xpos
hboxLayoutFromXpos(b) ==
  LET r == hboxLayoutFrom(b.children, 1, b.xpos, 0, b.spacing) IN
  [b EXCEPT !.children = r.children, !.xpos = r.xpos, !.width = r.xpos, !.height = r.height]

\* HBox.layout()
hboxLayout(b) ==
  LET r == hboxLayoutFrom(b.children, 1, 0, 0, b.spacing) IN
  [b EXCEPT !.children = r.children, !.xpos = r.xpos, !.width = r.xpos, !.height = r.height]

\* the loop of VBox.layout() from the child i on
RECURSIVE vboxLayoutFrom(_, _, _, _, _)
vboxLayoutFrom(kids, i, ypos, width, spacing) ==
  IF i > Len(kids)
  THEN [children |-> kids, ypos |-> ypos, width |-> width]
  ELSE LET y == IF i > 1 THEN ypos + spacing ELSE ypos IN
       vboxLayoutFrom([kids EXCEPT ![i].y = y], i + 1, y + kids[i].height,
                      MathMax(width, kids[i].x + kids[i].width), spacing)

\* VBox.layout()
vboxLayout(b) ==
  LET r == vboxLayoutFrom(b.children, 1, 0, 0, b.spacing) IN
  [b EXCEPT !.children = r.children, !.xpos = r.ypos, !.width = r.width, !.height = r.ypos]

boxAppendChild(c, b, child) ==
  IF c = "HBox" THEN hboxAppendChild(b, child) ELSE vboxAppendChild(b, child)

boxLayout(c, b) == IF c = "HBox" THEN hboxLayout(b) ELSE vboxLayout(b)

\* a component built for the box c with the size w x h, a across the box
NewChild(c, id, w, h, a) ==
  IF c = "HBox"
  THEN [id |-> id, x |-> 0, y |-> a, width |-> w, height |-> h]
  ELSE [id |-> id, x |-> a, y |-> 0, width |-> w, height |-> h]

\* the div of addSpace(space)
SpaceDiv(c, id, space) ==
  IF c = "HBox"
  THEN [id |-> id, x |-> 0, y |-> 0, width |-> space, height |-> 0]
  ELSE [id |-> id, x |-> 0, y |-> 0, width |-> 0, height |-> space]

\* new HBox / VBox(parent, x, y, spacing)
BoxConstruct(c, spacing) ==
  /\ cls = c
  /\ box = [NoBox EXCEPT !.spacing = OrDefault(spacing, 0)]
  /\ radio = NoRadio
  /\ calls = 0
  /\ win = NoWindow
  /\ enabled = TRUE
  /\ listeners = {}
  /\ open = FALSE
  /\ index = [n |-> 0 - 1, str |-> FALSE]
  /\ focus = "none"
  /\ zIndex = ""
  /\ initialZ = "undefined"
  /\ peer = PeerKnob
  /\ last = Quiet("new")
  /\ min = 0 /\ max = 0 /\ decimals = 0 /\ value = 0 /\ reversed = FALSE
  /\ offset = NaN /\ startY = NaN /\ startValue = NaN /\ handlePos = 0
  /\ isIncrementing = FALSE /\ isDecrementing = FALSE
  /\ delay = NaN /\ timeout = 0 /\ timers = {}

Called(op, arg) == [op |-> op, fired |-> 0, detail |-> arg]

\* a new component whose parent is the box: its constructor ends with
\* _addToParent(), which calls appendChild of the box
AppendNew(w, h, a) ==
  /\ cls \in Boxes
  /\ calls < MaxCalls
  /\ box' = boxAppendChild(cls, box, NewChild(cls, Len(box.children) + 1, w, h, a))
  /\ last' = Called("appendChild", Len(box.children) + 1)
  /\ calls' = calls + 1
  /\ UNCHANGED <<cls, nonLayoutVars>>

\* appendChild(child) for the i-th child, which the box already contains
AppendAgain(i) ==
  /\ cls \in Boxes
  /\ calls < MaxCalls
  /\ i \in 1..Len(box.children)
  /\ box' = boxAppendChild(cls, box, box.children[i])
  /\ last' = Called("appendChild", box.children[i].id)
  /\ calls' = calls + 1
  /\ UNCHANGED <<cls, nonLayoutVars>>

\* addSpace(space)
addSpace(space) ==
  /\ cls \in Boxes
  /\ calls < MaxCalls
  /\ box' = boxAppendChild(cls, box, SpaceDiv(cls, Len(box.children) + 1, space))
  /\ last' = Called("addSpace", Len(box.children) + 1)
  /\ calls' = calls + 1
  /\ UNCHANGED <<cls, nonLayoutVars>>

\* layout(); the observation counts the layout() calls made in a row
layout ==
  /\ cls \in Boxes
  /\ calls < MaxCalls
  /\ box' = boxLayout(cls, box)
  /\ last' = Called("layout", IF last.op = "layout" THEN last.detail + 1 ELSE 1)
  /\ calls' = calls + 1
  /\ UNCHANGED <<cls, nonLayoutVars>>

\* setSpacing(v) followed by layout()
setSpacingAndLayout(v) ==
  /\ cls \in Boxes
  /\ calls < MaxCalls
  /\ box' = boxLayout(cls, [box EXCEPT !.spacing = v])
  /\ last' = Called("setSpacing", v)
  /\ calls' = calls + 1
  /\ UNCHANGED <<cls, nonLayoutVars>>

\* setSpacing(v)
setSpacing(v) ==
  /\ cls \in Boxes
  /\ calls < MaxCalls
  /\ box' = [box EXCEPT !.spacing = v]
  /\ last' = Called("setSpacing", v)
  /\ calls' = calls + 1
  /\ UNCHANGED <<cls, nonLayoutVars>>

\* setWidth(w) of the i-th child, a Component
ChildSetWidth(i, w) ==
  /\ cls \in Boxes
  /\ calls < MaxCalls
  /\ i \in 1..Len(box.children)
  /\ box' = [box EXCEPT !.children[i].width = w]
  /\ last' = Called("child.setWidth", box.children[i].id)
  /\ calls' = calls + 1
  /\ UNCHANGED <<cls, nonLayoutVars>>

\* setHeight(h) of the i-th child, a Component
ChildSetHeight(i, h) ==
  /\ cls \in Boxes
  /\ calls < MaxCalls
  /\ i \in 1..Len(box.children)
  /\ box' = [box EXCEPT !.children[i].height = h]
  /\ last' = Called("child.setHeight", box.children[i].id)
  /\ calls' = calls + 1
  /\ UNCHANGED <<cls, nonLayoutVars>>

InitBox == \E c \in Boxes, spacing \in SpacingArgs : BoxConstruct(c, spacing)

NextBox ==
  \/ \E w \in ChildSizes, h \in ChildSizes, a \in ChildOffsets : AppendNew(w, h, a)
  \/ \E i \in 1..MaxCalls : AppendAgain(i)
  \/ \E space \in SpacingInputs : addSpace(space)
  \/ layout
  \/ \E v \in SpacingInputs : setSpacing(v)
  \/ \E i \in 1..MaxCalls, w \in ChildSizes : ChildSetWidth(i, w)
  \/ \E i \in 1..MaxCalls, h \in ChildSizes : ChildSetHeight(i, h)

SpecBox == InitBox /\ [][NextBox]_vars

-----------------------------------------------------------------------------
(* Component: the size of a box *)

\* arguments of setWidth, setHeight and setSize
SizeInputs == {0 - 10, 0 - 1, 0, 20, 50, 100}

\* Component.setWidth(w)
setWidth(w) ==
  /\ cls \in Boxes
  /\ box' = [box EXCEPT !.width = w]
  /\ last' = Called("setWidth", w)
  /\ UNCHANGED <<cls, calls, nonLayoutVars>>

\* Component.setHeight(h)
setHeight(h) ==
  /\ cls \in Boxes
  /\ box' = [box EXCEPT !.height = h]
  /\ last' = Called("setHeight", h)
  /\ UNCHANGED <<cls, calls, nonLayoutVars>>

\* Component.setSize(w, h): setWidth(w), then setHeight(h)
setSize(w, h) ==
  /\ cls \in Boxes
  /\ box' = [box EXCEPT !.width = w, !.height = h]
  /\ last' = Called("setSize", w)
  /\ UNCHANGED <<cls, calls, nonLayoutVars>>

\* Component.getWidth() and getHeight()
getWidth == box.width
getHeight == box.height

NextSize ==
  \/ \E w \in SizeInputs : setWidth(w)
  \/ \E h \in SizeInputs : setHeight(h)
  \/ \E w \in SizeInputs, h \in SizeInputs : setSize(w, h)

SpecSize == InitBox /\ [][NextSize]_vars

-----------------------------------------------------------------------------
(* RadioButton.  radiobuttongroup.js is not part of the sources at hand: the  *)
(* registry is the one the RadioButton code calls, keeping for each key the   *)
(* buttons added under it, in the order they were added.                      *)

\* the most radio buttons of a document
MaxButtons == 3

\* the group argument of the constructor; "undefined" when it is left out
GroupArgs == {"undefined", "a", "group"}

\* RadioButtonGroup.groups[key]: the buttons added under this key, in order
GroupMembers(bs, key) == SelectSeq([i \in 1..Len(bs) |-> i], LAMBDA i : bs[i].key = key)

\* the place of the button i among these members, 0 when it is not one of them
IndexOf(members, i) ==
  IF \E k \in 1..Len(members) : members[k] = i
  THEN CHOOSE k \in 1..Len(members) : members[k] = i
  ELSE 0

\* RadioButtonGroup._clearGroup(group): setChecked(false) on every member
clearGroup(bs, group) ==
  [i \in 1..Len(bs) |-> IF bs[i].key = group THEN [bs[i] EXCEPT !.checked = FALSE] ELSE bs[i]]

\* RadioButtonGroup._getNextInGroup(group, rb) for dir = 1 and _getPrevInGroup
\* for dir = -1; 0 when rb is not a member of this group, and the call fails
getNextInGroup(bs, group, i, dir) ==
  LET members == GroupMembers(bs, group)
      k == IndexOf(members, i)
  IN  IF k = 0 THEN 0
      ELSE IF dir = 1
      THEN (IF k = Len(members) THEN members[1] ELSE members[k + 1])
      ELSE (IF k = 1 THEN members[Len(members)] ELSE members[k - 1])

\* setChecked(checked) of the button i
setCheckedOf(bs, i, checked) ==
  LET cleared == IF checked THEN clearGroup(bs, bs[i].group) ELSE bs
  IN  [cleared EXCEPT ![i].checked = checked]

\* every field that is not of the radio buttons
nonRadioVars == <<min, max, decimals, value, reversed, enabled, listeners, dragVars,
                  handlePos, stepperVars, dropdownVars, peer, box, calls, win>>

\* a document that will hold RadioButtons
RadioConstruct ==
  /\ cls = "RadioButton"
  /\ radio = NoRadio
  /\ box = NoBox
  /\ calls = 0
  /\ win = NoWindow
  /\ enabled = TRUE
  /\ listeners = {<<"wrapper", "click", "_onClick">>, <<"wrapper", "keydown", "_onKeyPress">>}
  /\ open = FALSE
  /\ index = [n |-> 0 - 1, str |-> FALSE]
  /\ focus = "none"
  /\ zIndex = ""
  /\ initialZ = "undefined"
  /\ peer = PeerKnob
  /\ last = Quiet("new")
  /\ min = 0 /\ max = 0 /\ decimals = 0 /\ value = 0 /\ reversed = FALSE
  /\ offset = NaN /\ startY = NaN /\ startValue = NaN /\ handlePos = 0
  /\ isIncrementing = FALSE /\ isDecrementing = FALSE
  /\ delay = NaN /\ timeout = 0 /\ timers = {}

\* new RadioButton(parent, x, y, group, label, checked): _addToGroup(group,
\* this) with the argument as given, this._group = group || "group",
\* setChecked(checked || false)
NewRadioButton(group, checked) ==
  /\ cls = "RadioButton"
  /\ Len(radio.buttons) < MaxButtons
  /\ LET rb == [key |-> group,
                group |-> IF group = "undefined" THEN "group" ELSE group,
                checked |-> FALSE]
         bs == Append(radio.buttons, rb)
     IN  radio' = [radio EXCEPT !.buttons = setCheckedOf(bs, Len(bs), checked)]
  /\ last' = Called("new", Len(radio.buttons) + 1)
  /\ UNCHANGED <<cls, nonRadioVars>>

\* _onClick of the button i: setChecked(true), dispatchEvent("click")
onClick(i) ==
  IF enabled
  THEN /\ radio' = [buttons |-> setCheckedOf(radio.buttons, i, TRUE), focus |-> i]
       /\ last' = Fired("click", i)
  ELSE /\ radio' = [radio EXCEPT !.focus = i]
       /\ last' = Called("click", i)

\* a click of the user on the button i, which takes the focus
RadioClick(i) ==
  /\ cls = "RadioButton"
  /\ i \in 1..Len(radio.buttons)
  /\ onClick(i)
  /\ UNCHANGED <<cls, nonRadioVars>>

\* the user moves the focus to the button i
RadioFocus(i) ==
  /\ cls = "RadioButton"
  /\ i \in 1..Len(radio.buttons)
  /\ radio.focus # i
  /\ radio' = [radio EXCEPT !.focus = i]
  /\ last' = Called("focus", i)
  /\ UNCHANGED <<cls, nonRadioVars>>

\* _onKeyPress of the focused button
RadioKeyPress(keyCode) ==
  /\ cls = "RadioButton"
  /\ radio.focus # 0
  /\ UNCHANGED <<cls, nonRadioVars>>
  /\ IF keyCode = 13
     THEN onClick(radio.focus)
     ELSE IF keyCode \in {38, 40}
     THEN LET next == getNextInGroup(radio.buttons, radio.buttons[radio.focus].group,
                                     radio.focus, IF keyCode = 40 THEN 1 ELSE 0 - 1)
          IN  /\ radio' = [radio EXCEPT !.focus = IF next = 0 THEN radio.focus ELSE next]
              /\ last' = Called("keydown", keyCode)
     ELSE /\ UNCHANGED radio
          /\ last' = Called("keydown", keyCode)

\* setChecked(checked) of the button i
setChecked(i, checked) ==
  /\ cls = "RadioButton"
  /\ i \in 1..Len(radio.buttons)
  /\ radio' = [radio EXCEPT !.buttons = setCheckedOf(radio.buttons, i, checked)]
  /\ last' = Called("setChecked", i)
  /\ UNCHANGED <<cls, nonRadioVars>>

\* RadioButton.setEnabled(e) of the button i: a call with the current state
\* returns at once; any other call reaches `super.super(enabled)`, a call of
\* the property "super" of Component.prototype, which is undefined, and throws
\* a TypeError before this._enabled is written
radioSetEnabled(i, e) ==
  /\ cls = "RadioButton"
  /\ i \in 1..Len(radio.buttons)
  /\ last' = IF enabled = e THEN Called("setEnabled", i) ELSE Called("TypeError", i)
  /\ UNCHANGED <<cls, radio, nonRadioVars>>

InitRadio == RadioConstruct

NextRadio ==
  \/ \E group \in GroupArgs, checked \in BOOLEAN : NewRadioButton(group, checked)
  \/ \E i \in 1..MaxButtons : RadioClick(i)
  \/ \E i \in 1..MaxButtons : RadioFocus(i)
  \/ \E k \in {13, 38, 40, 65} : RadioKeyPress(k)
  \/ \E i \in 1..MaxButtons, checked \in BOOLEAN : setChecked(i, checked)
  \/ \E i \in 1..MaxButtons, e \in BOOLEAN : radioSetEnabled(i, e)

SpecRadio == InitRadio /\ [][NextRadio]_vars

-----------------------------------------------------------------------------
(* Window *)

\* the most presses on the title bar; each takes the next Style.windowIndex
MaxPresses == 2

\* the h argument of the constructor (NaN is undefined) and of setHeight
HeightArgs == {NaN, 200}
HeightInputs == {100, 200}

\* where on the title bar the pointer goes down, relative to the window's
\* corner, and where the pointer moves to, relative to the offset parent
GrabOffsets2 == {0, 10}
PointerPositions == {0, 20}

TitleBarListeners ==
  { <<"titleBar", "mousedown", "_onMouseDown">>,
    <<"titleBar", "touchstart", "_onMouseDown">> }

\* Window._createListeners
WindowListeners == TitleBarListeners \cup {<<"button", "click", "_onMinimize">>}

\* the state of a Window that setEnabled reads and writes
WindowState == [win |-> win, enabled |-> enabled, listeners |-> listeners]

\* _onMinimize()
onMinimizeOf(w) ==
  LET m == ~w.minimized IN
  [w EXCEPT !.minimized = m, !.height = IF m THEN 30 ELSE w.openHeight]

\* setMinimizable(minimizable)
setMinimizableOf(w, minimizable) == [w EXCEPT !.minimizable = minimizable]

\* setDraggable(draggable)
setDraggableOf(s, draggable) ==
  IF s.win.draggable # draggable
  THEN [s EXCEPT !.win.draggable = draggable,
                 !.listeners = IF draggable THEN s.listeners \cup TitleBarListeners
                                            ELSE s.listeners \ TitleBarListeners]
  ELSE s

\* Window.setEnabled(enabled)
setEnabledOf(s, e) ==
  IF s.enabled = e
  THEN s
  ELSE IF e
  THEN LET w1 == onMinimizeOf([s.win EXCEPT !.minimized = TRUE])
           w2 == setMinimizableOf(w1, w1.enabledMinimizable)
       IN  setDraggableOf([s EXCEPT !.enabled = TRUE, !.win = w2], w2.enabledDraggable)
  ELSE LET w1 == onMinimizeOf([s.win EXCEPT !.minimized = FALSE])
           w2 == [w1 EXCEPT !.enabledMinimizable = w1.minimizable,
                            !.enabledDraggable = w1.draggable]
           w3 == setMinimizableOf(w2, FALSE)
       IN  setDraggableOf([s EXCEPT !.enabled = FALSE, !.win = w3], FALSE)

SetWindowState(s) ==
  /\ win' = s.win
  /\ enabled' = s.enabled
  /\ listeners' = s.listeners

\* every field that is not of the Window
nonWindowVars == <<min, max, decimals, value, reversed, dragVars, handlePos, stepperVars,
                   dropdownVars, peer, box, radio, calls>>

\* new Window(parent, x, y, w, h, label)
WindowConstruct(h) ==
  /\ cls = "Window"
  /\ win = [draggable |-> TRUE, minimizable |-> TRUE, minimized |-> FALSE,
            height |-> OrDefault(h, 400), openHeight |-> OrDefault(h, 400),
            x |-> 0, y |-> 0, offsetX |-> NaN, offsetY |-> NaN,
            enabledMinimizable |-> "undefined", enabledDraggable |-> "undefined",
            zIndex |-> 0, windowIndex |-> 1]
  /\ enabled = TRUE
  /\ listeners = WindowListeners
  /\ box = NoBox
  /\ radio = NoRadio
  /\ calls = 0
  /\ open = FALSE
  /\ index = [n |-> 0 - 1, str |-> FALSE]
  /\ focus = "none"
  /\ zIndex = ""
  /\ initialZ = "undefined"
  /\ peer = PeerKnob
  /\ last = Quiet("new")
  /\ min = 0 /\ max = 0 /\ decimals = 0 /\ value = 0 /\ reversed = FALSE
  /\ offset = NaN /\ startY = NaN /\ startValue = NaN /\ handlePos = 0
  /\ isIncrementing = FALSE /\ isDecrementing = FALSE
  /\ delay = NaN /\ timeout = 0 /\ timers = {}

\* _onMouseDown for a press on the title bar, gx, gy from the window's corner
windowMouseDown(touch, gx, gy) ==
  /\ cls = "Window"
  /\ Registered("titleBar", IF touch THEN "touchstart" ELSE "mousedown", "_onMouseDown")
  /\ win.windowIndex <= MaxPresses
  /\ win' = [win EXCEPT !.zIndex = win.windowIndex,
                        !.windowIndex = win.windowIndex + 1,
                        !.offsetX = gx,
                        !.offsetY = gy]
  /\ listeners' = listeners \cup DragListeners
  /\ last' = Called("down", 0)
  /\ UNCHANGED <<cls, enabled, nonWindowVars>>

\* _onMouseMove for a pointer move on the document to mx, my
windowMouseMove(touch, mx, my) ==
  /\ cls = "Window"
  /\ Registered("document", IF touch THEN "touchmove" ELSE "mousemove", "_onMouseMove")
  /\ win' = [win EXCEPT !.x = mx - win.offsetX, !.y = my - win.offsetY]
  /\ last' = Called("move", 0)
  /\ UNCHANGED <<cls, enabled, listeners, nonWindowVars>>

\* _onMouseUp for a pointer release on the document
windowMouseUp(touch) ==
  /\ cls = "Window"
  /\ Registered("document", IF touch THEN "touchend" ELSE "mouseup", "_onMouseUp")
  /\ listeners' = listeners \ DragListeners
  /\ last' = Called("up", 0)
  /\ UNCHANGED <<cls, enabled, win, nonWindowVars>>

\* a click on the minimize button, which is hidden when the window is not
\* minimizable: _onMinimize
onMinimize ==
  /\ cls = "Window"
  /\ Registered("button", "click", "_onMinimize")
  /\ win.minimizable
  /\ win' = onMinimizeOf(win)
  /\ last' = Called("click", 0)
  /\ UNCHANGED <<cls, enabled, listeners, nonWindowVars>>

\* setDraggable(draggable)
setDraggable(draggable) ==
  /\ cls = "Window"
  /\ SetWindowState(setDraggableOf(WindowState, draggable))
  /\ last' = Called("setDraggable", 0)
  /\ UNCHANGED <<cls, nonWindowVars>>

\* setMinimizable(minimizable)
setMinimizable(minimizable) ==
  /\ cls = "Window"
  /\ win' = setMinimizableOf(win, minimizable)
  /\ last' = Called("setMinimizable", 0)
  /\ UNCHANGED <<cls, enabled, listeners, nonWindowVars>>

\* Window.setEnabled(e)
windowSetEnabled(e) ==
  /\ cls = "Window"
  /\ SetWindowState(setEnabledOf(WindowState, e))
  /\ last' = Called("setEnabled", 0)
  /\ UNCHANGED <<cls, nonWindowVars>>

\* Window.setHeight(height)
windowSetHeight(height) ==
  /\ cls = "Window"
  /\ win' = [win EXCEPT !.height = height, !.openHeight = height]
  /\ last' = Called("setHeight", height)
  /\ UNCHANGED <<cls, enabled, listeners, nonWindowVars>>

InitWindow == \E h \in HeightArgs : WindowConstruct(h)

NextWindow ==
  \/ \E touch \in BOOLEAN, gx \in GrabOffsets2, gy \in GrabOffsets2 : windowMouseDown(touch, gx, gy)
  \/ \E touch \in BOOLEAN, mx \in PointerPositions, my \in PointerPositions :
       windowMouseMove(touch, mx, my)
  \/ \E touch \in BOOLEAN : windowMouseUp(touch)
  \/ onMinimize
  \/ \E d \in BOOLEAN : setDraggable(d)
  \/ \E m \in BOOLEAN : setMinimizable(m)
  \/ \E e \in BOOLEAN : windowSetEnabled(e)
  \/ \E h \in HeightInputs : windowSetHeight(h)

SpecWindow == InitWindow /\ [][NextWindow]_vars

-----------------------------------------------------------------------------
(* ProgressBar: value holds this._progress, max holds this._max and handlePos *)
(* the width of the fill in pixels                                            *)

ProgressBarWidth == 100

\* the progress and max arguments of the constructor and of the setters; NaN
\* is undefined
ProgressInputs == {NaN, 0 - 50, 0, 50, 150}
MaxProgressInputs == {NaN, 0 - 100, 0, 50, 100, 200}

\* _updateBar(): the width of the fill; a NaN percent gives an invalid style
\* value, which the DOM ignores
updateBar(p, mx, old) ==
  IF IsNaN(p) \/ IsNaN(mx) \/ (p = 0 /\ mx = 0)
  THEN old
  ELSE IF mx = 0
  THEN (IF p > 0 THEN ProgressBarWidth ELSE 0)
  ELSE LET n == IF mx < 0 THEN 0 - p ELSE p
           d == IF mx < 0 THEN 0 - mx ELSE mx
       IN  IF n <= 0 THEN 0
           ELSE IF n >= d THEN ProgressBarWidth
           ELSE (n * ProgressBarWidth) \div d

\* setProgress(progress): the new this._progress
setProgressOf(progress, mx) == MathMax(MathMin(progress, mx), 0)

\* every field that is not of the ProgressBar
nonProgressVars == <<cls, min, decimals, reversed, enabled, listeners, dragVars, stepperVars,
                     dropdownVars, peer, layoutVars>>

\* new ProgressBar(parent, x, y, progress, max)
ProgressConstruct(progress, mx) ==
  /\ cls = "ProgressBar"
  /\ value = OrDefault(progress, 0)
  /\ max = OrDefault(mx, 100)
  /\ handlePos = updateBar(OrDefault(progress, 0), OrDefault(mx, 100), 0)
  /\ box = NoBox
  /\ radio = NoRadio
  /\ calls = 0
  /\ win = NoWindow
  /\ enabled = TRUE
  /\ listeners = {}
  /\ open = FALSE
  /\ index = [n |-> 0 - 1, str |-> FALSE]
  /\ focus = "none"
  /\ zIndex = ""
  /\ initialZ = "undefined"
  /\ peer = PeerKnob
  /\ last = Quiet("new")
  /\ min = 0 /\ decimals = 0 /\ reversed = FALSE
  /\ offset = NaN /\ startY = NaN /\ startValue = NaN
  /\ isIncrementing = FALSE /\ isDecrementing = FALSE
  /\ delay = NaN /\ timeout = 0 /\ timers = {}

\* setProgress(progress)
setProgress(progress) ==
  /\ cls = "ProgressBar"
  /\ value' = setProgressOf(progress, max)
  /\ handlePos' = updateBar(value', max, handlePos)
  /\ last' = Called("setProgress", progress)
  /\ UNCHANGED <<max, nonProgressVars>>

\* setMax(max): setProgress(Math.max(Math.min(this._progress, max), 0)), then
\* _updateBar()
setMax(mx) ==
  /\ cls = "ProgressBar"
  /\ max' = mx
  /\ value' = setProgressOf(MathMax(MathMin(value, mx), 0), mx)
  /\ handlePos' = updateBar(value', mx, handlePos)
  /\ last' = Called("setMax", mx)
  /\ UNCHANGED nonProgressVars

getProgress == value

InitProgress ==
  \E progress \in ProgressInputs, mx \in MaxProgressInputs : ProgressConstruct(progress, mx)

NextProgress ==
  \/ \E progress \in ProgressInputs : setProgress(progress)
  \/ \E mx \in MaxProgressInputs : setMax(mx)

SpecProgress == InitProgress /\ [][NextProgress]_vars

-----------------------------------------------------------------------------
(* Properties *)

\* the listeners registered on the document
DocumentListeners(ls) == {l \in ls : l[1] = "document"}

\* clamp(round(v, d), mn, mx)
RoundThenClamp(v, mn, mx, d) == MathMax(MathMin(RoundTo(v, d), mx), mn)

\* C1: after any sequence of operations on a slider or knob, getValue() is a
\* number within [min, max] inclusive.
C1_ValueWithinRange ==
  /\ ~IsNaN(getValue)
  /\ min <= getValue
  /\ getValue <= max

\* C2: getValue() of a slider or knob is the stored value first rounded to
\* `decimals` and then clamped to [min, max].
C2_RoundedThenClamped ==
  cls \in Draggables => getValue = RoundThenClamp(value, min, max, decimals)

\* C3: a pointer move on the document dispatches a change exactly when it
\* changes getValue(), and leaves the stored value alone otherwise.
C3_MoveDispatchesOnChange ==
  [][last'.op = "move" =>
       /\ (last'.fired = 1) = (getValue' # getValue)
       /\ (last'.fired = 0 => value' = value)]_vars

\* C4: a key press or a wheel tick dispatches one change when it changes
\* getValue() and none when it does not.
C4_StepDispatchesOnChange ==
  [][((\E k \in KeyCodes : KeyDown(k)) \/ (\E dy \in {0 - 1, 0, 1} : Wheel(dy)))
       => (last'.fired = 1) = (getValue' # getValue)]_vars

\* C5: the detail of every dispatched change is getValue() at the moment of
\* the dispatch.
C5_DetailIsValue == last.fired = 1 => last.detail = getValue

\* C6: once a slider or knob is disabled it has no listener on the document,
\* and no later pointer move or release on the document changes the value or
\* dispatches a change.
C6_DisableEndsDrag ==
  [][(cls \in Draggables /\ ~enabled') =>
       /\ DocumentListeners(listeners') = {}
       /\ (value' # value \/ last'.fired # 0) =>
            ~(\E touch \in BOOLEAN :
                \/ MouseUp(touch)
                \/ \E x \in MovePositions : MouseMove(touch, x))]_vars

\* a slider or knob was disabled while its drag listeners were registered
C6_DisabledMidDrag ==
  /\ cls \in Draggables
  /\ ~enabled
  /\ last.op = "cancel"
  /\ DocumentListeners(listeners) = {}

\* C7: once a stepper is disabled no tick is pending and its repeat is idle,
\* and no later tick steps the value or dispatches a change.
C7_DisableStopsRepeat ==
  [][(cls = "NumericStepper" /\ ~enabled') =>
       /\ timers' = {}
       /\ ~isIncrementing' /\ ~isDecrementing'
       /\ (last'.op = "tick" => value' = value /\ last'.fired = 0)]_vars

\* C8: while a widget is disabled, no pointer-down, key or wheel event on it
\* or on the stepper's buttons changes its value or dispatches a change.
C8_DisabledIgnoresInput ==
  [][(~enabled /\ (\/ \E dir \in {0 - 1, 1} : ButtonMouseDown(dir)
                   \/ \E dir \in {0 - 1, 1} : \E k \in {13, 65} : ButtonKeyDown(dir, k)
                   \/ \E dy \in {0 - 1, 0, 1} : Wheel(dy)))
       => value' = value /\ last'.fired = 0]_vars

\* C9: setEnabled(false) closes the dropdown's list, and a click on a disabled
\* dropdown does not open it.
C9_DisabledStaysClosed ==
  [][/\ (enabled /\ ~enabled') => ~open'
     /\ (~enabled /\ ~open /\ WrapperClick) => ~open']_vars

\* C10: the four drag listeners are registered and released together; a
\* pointer release on the document that runs a handler leaves none of them
\* registered, whatever pointer-downs came before it; and while none is
\* registered a pointer move changes no value and dispatches nothing.
C10_UpReleasesListeners ==
  [][/\ listeners' \cap DragListeners \in {{}, DragListeners}
     /\ last'.op = "up" => listeners' \cap DragListeners = {}
     /\ (listeners \cap DragListeners = {} /\ last'.op = "move")
          => value' = value /\ last'.fired = 0]_vars

\* a pointer release has just ended the drag of an enabled slider or knob
C10_DragEnded ==
  /\ cls \in Draggables
  /\ enabled
  /\ last.op = "up"
  /\ listeners \cap DragListeners = {}

\* C11: a stepper whose press-and-hold is idle (neither _isIncrementing nor
\* _isDecrementing), and a slider or knob that was just constructed or whose
\* drag was just ended or cancelled, has no listener on the document.
C11_NoSessionNoDocumentListener ==
  (\/ cls = "NumericStepper" /\ ~isIncrementing /\ ~isDecrementing
   \/ cls \in Draggables /\ last.op \in {"new", "up", "cancel"})
    => DocumentListeners(listeners) = {}

\* C12: at most one of the two widgets has drag listeners registered on the
\* document, and no pointer move dispatches a change on both.
C12_OneSessionAtATime ==
  /\ ~(listeners \cap DragListeners # {} /\ peer.listeners # {})
  /\ ~(last.op = "move" /\ last.fired = 1 /\ peer.fired = 1)

\* C12 (second part): no pointer move dispatches a change on both widgets.
C12_MoveAppliesToOneWidget ==
  ~(last.op = "move" /\ last.fired = 1 /\ peer.fired = 1)

\* the direction of the step that the timer t repeats
StepDir(t) == IF t.fn = "_increment" THEN 1 ELSE 0 - 1

\* C13: a press on + or - steps the value at once and arms one timer with the
\* first delay of 500; every tick of a held button steps the value and arms
\* one timer with the held delay of 50, so that the steps of a hold come at
\* 0, 500, 550, 600, ...; at most one timer is pending.
C13_RepeatDelays ==
  [][cls = "NumericStepper" =>
       /\ Cardinality(timers') <= 1
       /\ last'.op = "press" =>
            /\ delay' = HeldDelay
            /\ \E t \in timers' :
                 /\ t.delay = FirstDelay
                 /\ value' = roundValue(JsAdd(value, StepDir(t) * Inc(decimals)),
                                        min, max, decimals)
       /\ last'.op = "tick" =>
            /\ delay' = HeldDelay
            /\ timers' = {} => value' = value /\ last'.fired = 0
            /\ \A t \in timers' :
                 /\ t.delay = HeldDelay
                 /\ value' = roundValue(JsAdd(value, StepDir(t) * Inc(decimals)),
                                        min, max, decimals)]_vars

\* a tick of a held button has stepped the value and armed the next tick
C13_HeldTick ==
  /\ cls = "NumericStepper"
  /\ last.op = "tick"
  /\ last.fired = 1
  /\ (isIncrementing \/ isDecrementing)
  /\ \E t \in timers : t.delay = HeldDelay

\* C14: a mouseup on the document releases both buttons and a keyup of Enter
\* on a button releases that button, without a step or a change; the tick of
\* a released button steps nothing, dispatches nothing and arms no timer; and
\* only a press makes a button held again.
C14_ReleaseStopsRepeat ==
  [][cls = "NumericStepper" =>
       /\ last'.op = "up" =>
            /\ ~isIncrementing' /\ ~isDecrementing'
            /\ value' = value /\ last'.fired = 0
       /\ ButtonKeyUp(1, 13) =>
            ~isIncrementing' /\ value' = value /\ last'.fired = 0
       /\ ButtonKeyUp(0 - 1, 13) =>
            ~isDecrementing' /\ value' = value /\ last'.fired = 0
       /\ last'.op = "tick" =>
            \A t \in timers :
              ~(IF t.fn = "_increment" THEN isIncrementing ELSE isDecrementing)
                => value' = value /\ last'.fired = 0 /\ timers' = {}
       /\ ((isIncrementing' /\ ~isIncrementing) \/ (isDecrementing' /\ ~isDecrementing))
            => last'.op = "press"]_vars

\* the timer of a released button has fired and has done nothing
C14_IdleTick ==
  /\ cls = "NumericStepper"
  /\ last.op = "tick"
  /\ last.fired = 0
  /\ ~isIncrementing /\ ~isDecrementing
  /\ timers = {}
  /\ min < value /\ value < max

\* the number of step sizes a key adds: Page Down, Page Up, Left / Down,
\* Up / Right
KeySteps(k) ==
  CASE k = 34 -> 0 - 10
    [] k = 33 -> 10
    [] k \in {37, 40} -> 0 - 1
    [] k \in {38, 39} -> 1
    [] OTHER -> 0

\* the getValue() that the key k leads to when a key step counts sign times:
\* Home -> min, End -> max, the others v + sign * KeySteps(k) * stepSize, then
\* clamped and rounded
KeyResult(k, sign) ==
  roundValue(CASE k = 36 -> min
               [] k = 35 -> max
               [] OTHER -> JsAdd(getValue, sign * KeySteps(k) * Inc(decimals)),
             min, max, decimals)

\* every key and wheel event that reaches an enabled slider or knob leads to
\* the value of the mapping, the key steps counted sign(reversed) times
StepMapping(sign(_)) ==
  (cls \in Draggables /\ last'.op = "input" /\ listeners' = listeners
     /\ min' = min /\ max' = max /\ decimals' = decimals /\ reversed' = reversed
     /\ Registered("wrapper", "keydown", "_onKeyDown")) =>
    /\ \A k \in KeyCodes :
         KeyDown(k) => getValue' = KeyResult(k, sign(cls \in Sliders /\ reversed))
    /\ \A dy \in {0 - 1, 1} :
         Wheel(dy) => getValue' = roundValue(JsAdd(getValue, dy * Inc(decimals)),
                                             min, max, decimals)

SameSign(r) == 1
FlippedSign(r) == IF r THEN 0 - 1 ELSE 1

\* C15 (as stated): whatever `reversed` is, Home leads to min, End to max,
\* Left / Down to v - stepSize, Up / Right to v + stepSize, Page Down / Page Up
\* to v -/+ 10 * stepSize, a wheel tick to v +/- stepSize by the sign of its
\* delta, each then clamped and rounded.
C15_StepMappingAnyReversed == [][StepMapping(SameSign)]_vars

\* C15 (amended): the same mapping, except that on a reversed HSlider or
\* VSlider the key steps change sign (Left / Down lead to v + stepSize, Up /
\* Right to v - stepSize, Page Down / Page Up to v +/- 10 * stepSize); Home,
\* End and the wheel do not depend on `reversed`.
C15_StepMapping == [][StepMapping(FlippedSign)]_vars

\* a key or wheel step has just changed the value of a reversed slider
C15_SteppedReversed ==
  /\ cls \in Sliders
  /\ reversed
  /\ enabled
  /\ last.op = "input"
  /\ last.fired = 1
  /\ listeners \cap DragListeners = {}
  /\ ~IsNaN(getValue)

\* min + p * (max - min) with p = clamp(x / (L - H), 0, 1) for the leading
\* edge x of the handle, measured from the left end of a horizontal track and
\* from the bottom end of a vertical one (x is measured from the top), and p
\* replaced by 1 - p when reversed
LinearValue(c, x, mn, mx, rev) ==
  LET t  == TrackLength(c)
      xc == IF x < 0 THEN 0 ELSE IF x > t THEN t ELSE x
      up == IF c = "VSlider" THEN t - xc ELSE xc
      pt == IF rev THEN t - up ELSE up
  IN  mn + ((mx - mn) * pt) \div t

\* C16: a pointer move of a slider's drag that asks the handle's leading edge
\* to the offset x makes getValue() the value min + p * (max - min), p =
\* clamp(x / (L - H), 0, 1), or 1 - p when reversed, rounded to `decimals`;
\* the value grows from left to right and from bottom to top.  (x is the
\* pointer's position less the grab offset, for a grab offset that is a
\* number.)
C16_LinearMapping ==
  [][(cls \in Sliders /\ last'.op = "move" /\ ~IsNaN(offset)
        /\ Registered("document", "mousemove", "_onMouseMove")) =>
       \A touch \in BOOLEAN : \A x \in MovePositions :
         onMouseMove(touch, x) =>
           getValue' = roundValue(LinearValue(cls, x, min, max, reversed),
                                  min, max, decimals)]_vars

\* a pointer move has just dragged a reversed vertical slider to a value
\* inside its range
C16_DraggedInside ==
  /\ cls = "VSlider"
  /\ reversed
  /\ last.op = "move"
  /\ last.fired = 1
  /\ ~IsNaN(offset)
  /\ min < getValue /\ getValue < max

\* C17: a pointer-down on a knob anchors the drag at the pointer's clientY and
\* at getValue(), without changing the value; a pointer move displaced by dy
\* pixels from the anchor makes getValue() the anchored value less dy * (max -
\* min) / sensitivity, clamped and rounded, whatever moves came before.
C17_KnobAnchoredDrag ==
  [][cls = "Knob" =>
       /\ (last'.op = "input" /\ Registered("wrapper", "mousedown", "_onMouseDown")) =>
            \A touch \in BOOLEAN : \A p \in DownPositions :
              MouseDown(touch, p) =>
                /\ startY' = p
                /\ startValue' = getValue
                /\ getValue' = getValue
                /\ last'.fired = 0
       /\ (last'.op = "move" /\ Registered("document", "mousemove", "_onMouseMove")) =>
            \A touch \in BOOLEAN : \A dy \in KnobDeltas :
              onMouseMove(touch, dy) =>
                getValue' = roundValue(startValue - (dy * (max - min)) \div KnobSensitivity,
                                       min, max, decimals)]_vars

\* a drag that started at min has just reached max
C17_DraggedFromMinToMax ==
  /\ cls = "Knob"
  /\ last.op = "move"
  /\ last.fired = 1
  /\ startValue = min
  /\ getValue = max
  /\ min < max

\* C18: a pointer-down on a slider's track at p, outside the handle (before
\* its start or beyond its size), sets the grab offset to half the handle size
\* and makes getValue() a number within [min, max]: the value of the handle
\* position p - handleSize / 2, which centres the handle under the pointer.
C18_DownOffHandleRecentres ==
  [][(cls \in Sliders /\ last'.op = "input"
        /\ Registered("wrapper", "mousedown", "_onMouseDown")) =>
       \A touch \in BOOLEAN : \A p \in DownPositions :
         (/\ p - handlePos < 0 \/ p - handlePos > HandleLength(cls)
          /\ MouseDown(touch, p)) =>
           /\ offset' = HandleLength(cls) \div 2
           /\ ~IsNaN(getValue')
           /\ min <= getValue' /\ getValue' <= max
           /\ getValue' = roundValue(LinearValue(cls, p - HandleLength(cls) \div 2,
                                                 min, max, reversed),
                                     min, max, decimals)]_vars

\* C19: setMin, setMax and setDecimals leave the stored value as it is, so
\* that reading it back under the earlier bounds and decimals gives what
\* getValue() gave before the call.
C19_SettersKeepRawValue ==
  [][(\/ \E m \in MinInputs : setBound(FALSE, m)
      \/ \E m \in MaxInputs : setBound(TRUE, m)
      \/ \E d \in DecimalsInputs : setDecimals(d)) =>
       /\ value' = value
       /\ getValueOf(cls, value', min, max, decimals) = getValue]_vars

\* C20: when the text committed in the stepper's field, stripped of its
\* non-numeric characters, does not parse to a number, the stepper keeps its
\* value and dispatches no change.
C20_UnparsableKeepsValue ==
  [][(cls = "NumericStepper" /\ enabled /\ last'.op = "input") =>
       \A text \in TextInputs :
         (IsNaN(ParseFloat(Strip(text))) /\ InputCommit(text)) =>
           value' = value /\ last'.fired = 0]_vars

\* C21: a constructor leaves getMin() and getMax() at the min and max it was
\* given, 0 included, and at 0 and 100 when they are omitted.
C21_ConstructorBounds ==
  [][last'.op = "new" =>
       \A c \in Bounded, v \in {NaN, 70}, mn \in MinArgs, mx \in MaxArgs :
         New(c, v, mn, mx) =>
           /\ min' = (IF IsNaN(mn) THEN 0 ELSE mn)
           /\ max' = (IF IsNaN(mx) THEN 1000 ELSE mx)]_vars

\* C29: the tick of a held button whose value has reached the bound it steps
\* towards (max for +, min for -) changes no value and dispatches nothing,
\* and arms the next tick with the held delay.
C29_BoundaryTickReschedules ==
  [][(cls = "NumericStepper" /\ last'.op = "tick") =>
       \A t \in timers :
         (/\ IF t.fn = "_increment" THEN isIncrementing ELSE isDecrementing
          /\ ~IsNaN(value)
          /\ IF t.fn = "_increment" THEN value >= max ELSE value <= min) =>
           /\ value' = value
           /\ last'.fired = 0
           /\ \E n \in timers' : n.fn = t.fn /\ n.delay = HeldDelay
           /\ isIncrementing' = isIncrementing /\ isDecrementing' = isDecrementing]_vars

\* a held + button has just ticked at max
C29_TickedAtMax ==
  /\ cls = "NumericStepper"
  /\ last.op = "tick"
  /\ last.fired = 0
  /\ isIncrementing
  /\ ~IsNaN(value) /\ value >= max
  /\ \E n \in timers : n.fn = "_increment"

\* C30: the widget's round/clamp operation is idempotent: applied to its own
\* result, for the stored value, bounds and decimals of any state, it returns
\* that result.
C30_RoundIdempotent ==
  roundValue(roundValue(value, min, max, decimals), min, max, decimals)
    = roundValue(value, min, max, decimals)

\* a stored value above max whose clamped value rounds to a value above max
C30_RoundedPastMax ==
  /\ decimals < 0
  /\ ~IsNaN(value) /\ value > max
  /\ roundValue(value, min, max, decimals) > max

\* an HBox with spacing 10 to which one child of width 20 has been appended
HBoxWithA ==
  /\ cls = "HBox"
  /\ \E h \in ChildSizes, a \in ChildOffsets :
       box = hboxAppendChild([NoBox EXCEPT !.spacing = 10], NewChild("HBox", 1, 20, h, a))

\* a second child, of width 30, is appended
AppendsB ==
  /\ last'.op = "appendChild"
  /\ Len(box'.children) = 2
  /\ box'.children[2].id = 2
  /\ box'.children[2].width = 30

\* C22 as stated: in an HBox with spacing 10, appending A (width 20) and then
\* B (width 30) gives B.x = 30 and a container of width 50.
C22_ScenarioWidth50 ==
  [][(HBoxWithA /\ AppendsB) => (box'.children[2].x = 30 /\ box'.width = 50)]_vars

\* C22, amended: in an HBox with spacing 10, appending A (width 20) and then
\* B (width 30) gives B.x = 30 and a container of width 60 (20 + 10 + 30).
C22_ScenarioWidth60 ==
  [][(HBoxWithA /\ AppendsB) => (box'.children[2].x = 30 /\ box'.width = 60)]_vars

\* A and B have been appended to an HBox of spacing 10
C22_AppendedAThenB ==
  /\ cls = "HBox"
  /\ box.spacing = 10
  /\ calls = 2
  /\ last.op = "appendChild"
  /\ Len(box.children) = 2
  /\ box.children[1].width = 20 /\ box.children[1].x = 0
  /\ box.children[2].width = 30 /\ box.children[2].x = 30
  /\ box.width = 60

\* the box that appendChild builds from a new box of this spacing for the
\* first n of these children, each as it was before it was placed
RECURSIVE Appended(_, _, _, _)
Appended(c, kids, spacing, n) ==
  IF n = 0
  THEN [NoBox EXCEPT !.spacing = spacing]
  ELSE boxAppendChild(c, Appended(c, kids, spacing, n - 1),
                      IF c = "HBox" THEN [kids[n] EXCEPT !.x = 0] ELSE [kids[n] EXCEPT !.y = 0])

\* C23: layout() after a sequence of appendChild calls leaves every child
\* where appendChild put it and the container at the size appendChild gave it,
\* for the children and the spacing of any reachable box.
C23_LayoutKeepsAppended ==
  cls \in Boxes =>
    LET b == Appended(cls, box.children, box.spacing, Len(box.children))
    IN  boxLayout(cls, b) = b

Sum(f, n) == IF n = 0 THEN 0 ELSE LET RECURSIVE S(_)
                                      S(i) == IF i = 0 THEN 0 ELSE f[i] + S(i - 1)
                                  IN  S(n)

Maximum(S) == IF S = {} THEN 0 ELSE CHOOSE m \in S : \A k \in S : k <= m

\* C24: the size of an HBox / VBox is the bounding box of its children: along
\* the box the sum of their extents plus the spacing between consecutive
\* children, across the box the largest trailing edge of a child.
C24_SizeIsBoundingBox ==
  cls \in Boxes =>
    LET n == Len(box.children)
        gaps == IF n > 0 THEN (n - 1) * box.spacing ELSE 0
        widths == [i \in 1..n |-> box.children[i].width]
        heights == [i \in 1..n |-> box.children[i].height]
    IN  IF cls = "HBox"
        THEN /\ box.width = Sum(widths, n) + gaps
             /\ box.height = Maximum({box.children[i].y + box.children[i].height : i \in 1..n})
        ELSE /\ box.height = Sum(heights, n) + gaps
             /\ box.width = Maximum({box.children[i].x + box.children[i].width : i \in 1..n})

\* C25: setSpacing(v) changes the stored spacing to v and nothing else of the
\* box, neither the children's positions nor its size; the appendChild that
\* follows places its child v after the children placed so far.
C25_SetSpacingOnlyStores ==
  [][/\ last'.op = "setSpacing" =>
          box' = [box EXCEPT !.spacing = last'.detail]
     /\ (last.op = "setSpacing" /\ last'.op \in {"appendChild", "addSpace"} /\ box.xpos > 0) =>
          LET child == box'.children[Len(box'.children)]
          IN  (IF cls = "HBox" THEN child.x ELSE child.y) = box.xpos + last.detail]_vars

\* setSpacing(10) has been called on an HBox whose two children were placed
\* with the spacing 0
C25_SpacingSetAfterPlacing ==
  /\ cls = "HBox"
  /\ last.op = "setSpacing"
  /\ box.spacing = 10
  /\ Len(box.children) = 2
  /\ box.children[1].x = 0 /\ box.children[1].width = 20
  /\ box.children[2].x = 20
  /\ box.width = 20 + box.children[2].width

\* C28: getWidth() and getHeight() of a component are never negative.
C28_SizeNeverNegative == cls \in Boxes => (getWidth >= 0 /\ getHeight >= 0)

\* C26: at most one RadioButton of a group is checked, whether the group was
\* named or is the default one.
C26_OneCheckedPerGroup ==
  cls = "RadioButton" =>
    \A i, j \in 1..Len(radio.buttons) :
      (i # j /\ radio.buttons[i].group = radio.buttons[j].group)
        => ~(radio.buttons[i].checked /\ radio.buttons[j].checked)

\* C27: Down moves the focus of a Dropdown from the last item or from the
\* wrapper to the first item and Up from the first item or from the wrapper to
\* the last; from any other item they move it to the next / previous item.
C27_CyclicNavigation ==
  [][\A k \in {38, 40} :
       KeyPress(k) =>
         LET edge  == IF k = 40 THEN ItemCount - 1 ELSE 0
             first == IF k = 40 THEN 0 ELSE ItemCount - 1
             step  == IF k = 40 THEN 1 ELSE 0 - 1
         IN  focus' = IF focus = WrapperFocus \/ focus = ItemFocus(edge)
                      THEN ItemFocus(first)
                      ELSE ItemFocus(focus[2] + step)]_vars

\* C31: layout() is idempotent: a layout() call that directly follows another
\* leaves every child and the width, the height and _xpos / _ypos of the box
\* as the first call left them.
C31_LayoutIdempotent ==
  [][(cls \in Boxes /\ last.op = "layout" /\ last'.op = "layout") =>
       (box' = box /\ boxLayout(cls, box') = box')]_vars

\* layout() has been called twice in a row on an HBox that has a child
C31_LaidOutTwice ==
  /\ cls = "HBox"
  /\ last.op = "layout"
  /\ last.detail = 2
  /\ Len(box.children) = 1
  /\ box.children[1].width = 20
  /\ box.width = 20 /\ box.xpos = 20

\* C32: the handle of an HSlider / VSlider is where _updateHandlePosition puts
\* it for getValue(), the current range and the current reversed flag: the
\* display is never stale with respect to the value.
C32_HandleShowsValue ==
  cls \in Sliders =>
    handlePos = updateHandlePosition(cls, getValue, min, max, decimals, reversed, handlePos)

\* C33: a NumericStepper has at most one pending repeat timeout, whatever the
\* order of presses, releases and ticks.
C33_OnePendingTimeout == cls = "NumericStepper" => Cardinality(timers) <= 1

\* a tick has run while both buttons were held, and one timeout is pending
C33_TickedWithBothHeld ==
  /\ cls = "NumericStepper"
  /\ last.op = "tick"
  /\ isIncrementing /\ isDecrementing
  /\ Cardinality(timers) = 1

\* C34: on a Dropdown that has been disabled and enabled again, and so has
\* this._toggle among the click listeners of its wrapper, one click toggles
\* the list once: it opens the closed list and closes the open one.
C34_ClickTogglesOnce ==
  [][(/\ cls = "Dropdown"
      /\ enabled
      /\ Registered("wrapper", "click", "_toggle")
      /\ WrapperClick) => open' = ~open]_vars

\* the z-index a Dropdown is given before it is first opened
OriginalZIndex == {"", "5"}

\* C35: whenever a Dropdown is closed its z-index is the one it had before it
\* was first opened, never the popup's, whatever open(), close() and clicks
\* came before.
C35_ClosedRestoresZIndex ==
  (cls = "Dropdown" /\ ~open) => zIndex \in OriginalZIndex

\* C36: a setDraggable(false) or a setEnabled(false) that comes while a drag
\* of the title bar is in progress leaves no listener of the window on the
\* document, so that no later pointer move moves the window.
C36_TurnedOffMidDragStopsDrag ==
  [][(/\ cls = "Window"
      /\ DocumentListeners(listeners) # {}
      /\ last'.op \in {"setDraggable", "setEnabled"}
      /\ \/ win.draggable /\ ~win'.draggable
         \/ enabled /\ ~enabled')
       => DocumentListeners(listeners') = {}]_vars

\* C37: setEnabled(false) followed by setEnabled(true) gives back the
\* minimized state, the displayed height and the draggable and minimizable
\* flags of an enabled Window, open or minimized.
C37_DisableEnableRoundTrip ==
  (cls = "Window" /\ enabled) =>
    LET after == setEnabledOf(setEnabledOf(WindowState, FALSE), TRUE).win
    IN  /\ after.minimized = win.minimized
        /\ after.height = win.height
        /\ after.draggable = win.draggable
        /\ after.minimizable = win.minimizable

\* C38: the progress of a ProgressBar whose max is not negative lies within
\* [0, max], from its construction on.
C38_ProgressWithinRange ==
  (cls = "ProgressBar" /\ ~IsNaN(max) /\ max >= 0) =>
    (~IsNaN(getProgress) /\ 0 <= getProgress /\ getProgress <= max)

\* C39: setEnabled(e) of a RadioButton completes without an error and leaves
\* getEnabled() equal to e.
C39_SetEnabledCompletes ==
  [][\A i \in 1..MaxButtons, e \in BOOLEAN :
       radioSetEnabled(i, e) => (last'.op = "setEnabled" /\ enabled' = e)]_vars

=============================================================================
